---------------------------- MODULE Spec2Model ----------------------------
(***************************************************************************)
(* PartnerAI intelligence report: src/src/partnerai_intel_report.py, from  *)
(* payload extraction to the exit code (main, extract_items, coerce_item,  *)
(* select_best_url, dedupe_key, classify_signal, is_irrelevant,            *)
(* score_item, build_report_items, summarize_sources, check_url,           *)
(* validate_item_links).                                                   *)
(*                                                                         *)
(* Text is modelled character by character: a Python str is a TLA+ string, *)
(* `term in text` is substring search, str.lower() maps A-Z to a-z.        *)
(* A raw record is a function from its keys to values; a key that is       *)
(* absent, None or "" is falsy in every `or` chain of the code and is read *)
(* as "".                                                                  *)
(***************************************************************************)
EXTENDS Integers, Sequences, FiniteSets, TLC

VARIABLES raw_items, now_utc, today, run, previous, pc, pos, seen, final_items, item, signal, fate,
          payload, result, args, event_data, saved_payload, exit_code, raised, source_counts,
          seen_urls, link_results, link_pos, requests

\* the state of validate_item_links
links == <<seen_urls, link_results, link_pos, requests>>

\* the state outside build_report_items
outer == <<payload, result, args, event_data, saved_payload, exit_code, raised, source_counts, links>>

vars == <<raw_items, now_utc, today, run, previous, pc, pos, seen, final_items, item, signal, fate, outer>>

-----------------------------------------------------------------------------
(* Strings *)

UpperAlpha == "ABCDEFGHIJKLMNOPQRSTUVWXYZ"

LowerAlpha == "abcdefghijklmnopqrstuvwxyz"

Char(s, i) == SubSeq(s, i, i)

IndexIn(alphabet, c) ==
    IF \E i \in 1..Len(alphabet) : Char(alphabet, i) = c
    THEN CHOOSE i \in 1..Len(alphabet) : Char(alphabet, i) = c
    ELSE 0

ToLower == [c \in {Char(UpperAlpha, i) : i \in 1..Len(UpperAlpha)} |-> Char(LowerAlpha, IndexIn(UpperAlpha, c))]

ToUpper == [c \in {Char(LowerAlpha, i) : i \in 1..Len(LowerAlpha)} |-> Char(UpperAlpha, IndexIn(LowerAlpha, c))]

LowerChar(c) == IF c \in DOMAIN ToLower THEN ToLower[c] ELSE c

UpperChar(c) == IF c \in DOMAIN ToUpper THEN ToUpper[c] ELSE c

IsAlpha(c) == c \in DOMAIN ToLower \/ c \in DOMAIN ToUpper

RECURSIVE ConcatRange(_, _, _)
\* pieces[lo] \o ... \o pieces[hi], by halves
ConcatRange(pieces, lo, hi) ==
    IF lo > hi THEN ""
    ELSE IF lo = hi THEN pieces[lo]
    ELSE ConcatRange(pieces, lo, (lo + hi) \div 2) \o ConcatRange(pieces, (lo + hi) \div 2 + 1, hi)

\* the least element of a non-empty set of integers
Least(S) == CHOOSE i \in S : \A j \in S : i <= j

\* the greatest element of a non-empty set of integers
Greatest(S) == CHOOSE i \in S : \A j \in S : i >= j

\* str.lower()
Lower(s) == ConcatRange([i \in 1..Len(s) |-> LowerChar(Char(s, i))], 1, Len(s))

\* str.title(): a letter that follows no letter is upper-cased, every other one lower-cased
Title(s) ==
    ConcatRange([i \in 1..Len(s) |->
                    IF i = 1 \/ ~IsAlpha(Char(s, i - 1)) THEN UpperChar(Char(s, i)) ELSE LowerChar(Char(s, i))],
                1, Len(s))

\* `term in text`
Contains(text, term) ==
    \E i \in 1..(Len(text) - Len(term) + 1) : SubSeq(text, i, i + Len(term) - 1) = term

StartsWithAt(text, i, term) ==
    i + Len(term) - 1 <= Len(text) /\ SubSeq(text, i, i + Len(term) - 1) = term

\* \s of the regular expressions
IsSpace(c) == c \in {" ", "\t", "\n", "\r"}

\* what the character at i becomes: white space goes, and a character that follows
\* white space gets one space before it unless it is the first one kept
NormPiece(s, i) ==
    IF IsSpace(Char(s, i)) THEN ""
    ELSE IF i > 1 /\ IsSpace(Char(s, i - 1)) /\ (\E j \in 1..(i - 1) : ~IsSpace(Char(s, j)))
    THEN " " \o Char(s, i)
    ELSE Char(s, i)

\* re.sub(r"\s+", " ", value or "").strip()
normalize_text(value) == ConcatRange([i \in 1..Len(value) |-> NormPiece(value, i)], 1, Len(value))

RECURSIVE Join(_, _)
\* sep.join(parts)
Join(parts, sep) ==
    IF Len(parts) = 0 THEN ""
    ELSE IF Len(parts) = 1 THEN parts[1]
    ELSE parts[1] \o sep \o Join(Tail(parts), sep)

\* any(token in text for token in tokens)
AnyIn(tokens, text) == \E k \in 1..Len(tokens) : Contains(text, tokens[k])

\* sum(1 for term in terms if term in text)
Matches(terms, text) == Cardinality({k \in 1..Len(terms) : Contains(text, terms[k])})

Max(a, b) == IF a >= b THEN a ELSE b

Min(a, b) == IF a <= b THEN a ELSE b

-----------------------------------------------------------------------------
(* classify_signal *)

rules ==
    << [category |-> "Funding",
        strong_terms |-> <<"grant", "funding", "call for proposals", "fund", "financial support", "award">>,
        medium_terms |-> <<"open call", "call for expressions of interest", "apply now", "funding window">>,
        signal |-> "Funding call or grant opportunity"],
       [category |-> "Procurement",
        strong_terms |-> <<"tender", "procurement", "rfp", "request for proposal", "bid", "invitation to bid">>,
        medium_terms |-> <<"tender notice", "solicitation", "vendor", "contract award">>,
        signal |-> "Procurement or tender notice"],
       [category |-> "Humanitarian Update",
        strong_terms |-> <<"humanitarian", "emergency", "crisis", "appeal", "response plan", "relief">>,
        medium_terms |-> <<"flash appeal", "urgent", "displacement", "outbreak">>,
        signal |-> "Humanitarian emergency or response update"],
       [category |-> "Development Program",
        strong_terms |-> <<"program launch", "development program", "initiative", "capacity building", "pilot">>,
        medium_terms |-> <<"partnership", "implementation", "project start", "technical assistance">>,
        signal |-> "Development program or implementation activity"],
       [category |-> "Policy Update",
        strong_terms |-> <<"policy", "regulation", "strategy", "framework", "legislation">>,
        medium_terms |-> <<"approved", "adopted", "policy shift", "guidance">>,
        signal |-> "Policy, regulation, or strategic update"] >>

strong_matches(rule, lower_text) == Matches(rule.strong_terms, lower_text)

medium_matches(rule, lower_text) == Matches(rule.medium_terms, lower_text)

\* score = strong_matches * 2 + medium_matches
raw_score(rule, lower_text) == strong_matches(rule, lower_text) * 2 + medium_matches(rule, lower_text)

\* the elif without `or medium_matches >= 2`
strength_of_strong_only(strong, medium) ==
    IF strong >= 2 THEN 3
    ELSE IF strong >= 1 THEN 2
    ELSE 1

\* the if / elif / else that sets best_strength
strength_of(strong, medium) ==
    IF strong >= 2 THEN 3
    ELSE IF strong >= 1 \/ medium >= 2 THEN 2
    ELSE 1

\* `if score > best_score:` with >= : a later rule of equal score overwrites
BeatsBestOrEqual(score, best_score) == score >= best_score

\* `if score > best_score:`
BeatsBest(score, best_score) == score > best_score

RECURSIVE ClassifyLoop(_, _, _)
\* the for loop over rules, from rule k on, with the best_* locals in `best`
ClassifyLoop(lower_text, k, best) ==
    IF k > Len(rules) THEN best
    ELSE LET rule == rules[k]
             score == raw_score(rule, lower_text)
         IN  IF BeatsBest(score, best.score)
             THEN ClassifyLoop(lower_text, k + 1,
                      [category |-> rule.category,
                       signal |-> rule.signal,
                       strength |-> strength_of(strong_matches(rule, lower_text),
                                                medium_matches(rule, lower_text)),
                       score |-> score])
             ELSE ClassifyLoop(lower_text, k + 1, best)

\* return best_category, best_signal, best_strength
Returned(best) == [category |-> best.category, signal |-> best.signal, strength |-> best.strength]

classify_signal(text) ==
    Returned(ClassifyLoop(Lower(text), 1,
                 [category |-> "Development Program",
                  signal |-> "Development program or implementation activity",
                  strength |-> 1,
                  score |-> 0]))

-----------------------------------------------------------------------------
(* Raw records *)

\* item.get(key), with a falsy value (absent, None, "") read as ""
Get(raw, key) == IF key \in DOMAIN raw THEN raw[key] ELSE ""

\* a or b, on strings
Or(a, b) == IF a # "" THEN a ELSE b

-----------------------------------------------------------------------------
(* JSON values, as extract_items tells them apart: a list, a mapping, a string
   and anything else (null, a number, a boolean).  A string is blank, or the
   JSON text of a value, or text json.loads raises on.  The values a mapping
   holds under the keys extract_items reads are JSON values. *)

JNull == [other |-> "null"]

JNumber == [other |-> "number"]

JList(entries) == [list |-> entries]

JDict(mapping) == [dict |-> mapping]

JBlank == [str |-> "blank"]

JMalformed == [str |-> "malformed"]

JText(value) == [str |-> "json", loads |-> value]

\* isinstance(value, list)
IsList(value) == "list" \in DOMAIN value

\* isinstance(value, dict)
IsDict(value) == "dict" \in DOMAIN value

\* isinstance(value, str)
IsStr(value) == "str" \in DOMAIN value

\* mapping.get(key)
JGet(mapping, key) == IF key \in DOMAIN mapping THEN mapping[key] ELSE JNull

\* [entry for entry in entries if isinstance(entry, dict)]
Mappings(entries) == SelectSeq(entries, IsDict)

list_keys == <<"items", "rss_items", "entries", "records", "data", "opportunities">>

wrapper_keys == <<"payload", "client_payload", "body", "event">>

\* the first loop's `if isinstance(items, list)` holds whatever the list contains
\* only for a list with a mapping in it
list_key_hits_nonempty(mapping) ==
    {k \in 1..Len(list_keys) :
        /\ IsList(JGet(mapping, list_keys[k]))
        /\ Len(Mappings(JGet(mapping, list_keys[k]).list)) > 0}

\* the keys of the first loop at which `isinstance(items, list)` holds
list_key_hits(mapping) == {k \in 1..Len(list_keys) : IsList(JGet(mapping, list_keys[k]))}

\* the second loop, given what extract_items returned for each wrapper key, and
\* the statements after it
FromWrappers(nested, mapping) ==
    LET hits == {k \in 1..Len(wrapper_keys) : Len(nested[k]) > 0}
    IN  IF hits # {} THEN nested[Least(hits)]
        ELSE IF "title" \in DOMAIN mapping /\ "url" \in DOMAIN mapping THEN <<JDict(mapping)>>
        ELSE <<>>

RECURSIVE extract_items(_)
extract_items(value) ==
    IF IsList(value) THEN Mappings(value.list)
    ELSE IF IsStr(value)
    THEN IF value.str = "json" THEN extract_items(value.loads) ELSE <<>>
    ELSE IF ~IsDict(value) THEN <<>>
    ELSE IF list_key_hits(value.dict) # {}
    THEN Mappings(JGet(value.dict, list_keys[Least(list_key_hits(value.dict))]).list)
    ELSE FromWrappers([k \in 1..Len(wrapper_keys) |-> extract_items(JGet(value.dict, wrapper_keys[k]))],
                      value.dict)

-----------------------------------------------------------------------------
(* urllib.parse.urlparse, as far as is_http_url and is_placeholder_url read it:
   scheme, netloc and hostname *)

SchemeChars == "abcdefghijklmnopqrstuvwxyzABCDEFGHIJKLMNOPQRSTUVWXYZ0123456789+-."

\* index of the first occurrence of a character of `stops` at or after i, else Len(s) + 1
FindAny(s, i, stops) ==
    IF \E j \in i..Len(s) : Char(s, j) \in stops
    THEN Least({j \in i..Len(s) : Char(s, j) \in stops})
    ELSE Len(s) + 1

\* index of the last occurrence of character c at or before i, else 0
FindLast(s, i, c) ==
    IF \E j \in 1..i : Char(s, j) = c
    THEN Greatest({j \in 1..i : Char(s, j) = c})
    ELSE 0

\* colon is where the first ":" of url is: colon itself when it ends a well-formed
\* scheme, else 0
SchemeEndAt(url, colon) ==
    IF /\ colon > 1
       /\ colon <= Len(url)
       /\ IsAlpha(Char(url, 1))
       /\ \A j \in 1..(colon - 1) : IndexIn(SchemeChars, Char(url, j)) > 0
    THEN colon
    ELSE 0

\* the position of the ":" that ends a well-formed scheme, else 0
SchemeEnd(url) == SchemeEndAt(url, FindAny(url, 1, {":"}))

SchemeBefore(url, scheme_end) == IF scheme_end > 0 THEN Lower(SubSeq(url, 1, scheme_end - 1)) ELSE ""

url_scheme(url) == SchemeBefore(url, SchemeEnd(url))

\* the netloc of what follows the scheme: between "//" and the next "/", "?" or "#"
NetlocOf(rest) ==
    IF StartsWithAt(rest, 1, "//")
    THEN SubSeq(rest, 3, FindAny(rest, 3, {"/", "?", "#"}) - 1)
    ELSE ""

url_netloc(url) == NetlocOf(SubSeq(url, SchemeEnd(url) + 1, Len(url)))

UnbalancedBracket(netloc) == Contains(netloc, "[") # Contains(netloc, "]")

\* urlsplit raises ValueError("Invalid IPv6 URL") on an unbalanced bracket in the netloc
url_raises(url) == UnbalancedBracket(url_netloc(url))

\* netloc.rpartition("@")[2]
HostInfo(netloc) == SubSeq(netloc, FindLast(netloc, Len(netloc), "@") + 1, Len(netloc))

\* the host of hostinfo, as written: inside "[...]" if there is a "[", else up to the ":"
HostOf(hostinfo) ==
    IF FindAny(hostinfo, 1, {"["}) <= Len(hostinfo)
    THEN SubSeq(hostinfo, FindAny(hostinfo, 1, {"["}) + 1,
                FindAny(hostinfo, FindAny(hostinfo, 1, {"["}) + 1, {"]"}) - 1)
    ELSE SubSeq(hostinfo, 1, FindAny(hostinfo, 1, {":"}) - 1)

\* SplitResult.hostname: after the last "@", up to the port, lower-cased; None is ""
url_hostname(url) == Lower(HostOf(HostInfo(url_netloc(url))))

PLACEHOLDER_URL_HOSTS ==
    {"example.com", "www.example.com", "example.org", "www.example.org",
     "example.net", "www.example.net", "localhost", "127.0.0.1"}

is_http_url(value) ==
    /\ ~url_raises(value)
    /\ url_scheme(value) \in {"http", "https"}
    /\ url_netloc(value) # ""

is_placeholder_url(value) == url_raises(value) \/ url_hostname(value) \in PLACEHOLDER_URL_HOSTS

\* the characters URL_PATTERN's class [^\s)\]}>"'] excludes
UrlStops == {" ", "\t", "\n", "\r", ")", "]", "}", ">", "\"", "'"}

\* str.rstrip(".,;:")
RStripPunct(s) ==
    IF \E j \in 1..Len(s) : Char(s, j) \notin {".", ",", ";", ":"}
    THEN SubSeq(s, 1, Greatest({j \in 1..Len(s) : Char(s, j) \notin {".", ",", ";", ":"}}))
    ELSE ""

\* where the body of a URL_PATTERN match starting at i begins (after "http://" or
\* "https://", any letter case), else 0
UrlBodyStart(lower_text, i) ==
    IF StartsWithAt(lower_text, i, "https://") THEN i + 8
    ELSE IF StartsWithAt(lower_text, i, "http://") THEN i + 7
    ELSE 0

\* the end (exclusive) of the URL_PATTERN match that starts at i, else 0;
\* lower_text is text lower-cased (re.IGNORECASE)
UrlMatchEndFrom(text, body) ==
    IF body > 0 /\ FindAny(text, body, UrlStops) > body THEN FindAny(text, body, UrlStops) ELSE 0

UrlMatchEnd(text, lower_text, i) == UrlMatchEndFrom(text, UrlBodyStart(lower_text, i))

\* where the matches of URL_PATTERN.finditer(text) start: the scan goes on after
\* the end of a match, so a start inside an earlier match is none
UrlMatchStarts(text, lower_text) ==
    {i \in 1..Len(text) :
        /\ UrlMatchEnd(text, lower_text, i) > 0
        /\ ~\E j \in 1..(i - 1) : i < UrlMatchEnd(text, lower_text, j)}

RECURSIVE Ascending(_)
\* a set of integers as a list in increasing order
Ascending(S) == IF S = {} THEN <<>> ELSE <<Least(S)>> \o Ascending(S \ {Least(S)})

\* [match.group(0).rstrip(".,;:") for match in URL_PATTERN.finditer(value)]
UrlMatchesAt(value, low, starts) ==
    [k \in 1..Len(starts) |-> RStripPunct(SubSeq(value, starts[k], UrlMatchEnd(value, low, starts[k]) - 1))]

UrlMatches(value, low) == UrlMatchesAt(value, low, Ascending(UrlMatchStarts(value, low)))

extract_urls_from_text(value) == UrlMatches(value, Lower(value))

SOURCE_FALLBACK_URLS ==
    << <<"developmentaid", "https://www.developmentaid.org/api/frontend/funding/rss.xml">>,
       <<"reliefweb", "https://reliefweb.int/updates/rss.xml">>,
       <<"asian development bank", "https://www.adb.org/rss/business-opportunities.xml">>,
       <<"adb", "https://www.adb.org/rss/business-opportunities.xml">>,
       <<"world bank", "https://projects.worldbank.org/en/projects-operations/procurement/rss">>,
       <<"un news economic", "https://news.un.org/feed/subscribe/en/news/topic/economic-development/feed/rss.xml">>,
       <<"un news humanitarian", "https://news.un.org/feed/subscribe/en/news/topic/humanitarian-aid/feed/rss.xml">>,
       <<"un ocha", "https://www.unocha.org/rss.xml">>,
       <<"unocha", "https://www.unocha.org/rss.xml">>,
       <<"unicef", "https://www.unicef.org/">>,
       <<"unhcr", "https://www.unhcr.org/rss.xml">>,
       <<"eu tenders", "https://ted.europa.eu/TED/rss/en/RSS.xml">>,
       <<"ted", "https://ted.europa.eu/TED/rss/en/RSS.xml">>,
       <<"eu international partnerships", "https://international-partnerships.ec.europa.eu/newsroom/feed_en">>,
       <<"usaid", "https://www.usaid.gov/news-information/press-releases/rss.xml">>,
       <<"oecd", "https://oecd-development-matters.org/feed/">>,
       <<"african development bank", "https://www.afdb.org/en/projects-and-operations/procurement/rss">>,
       <<"afdb", "https://www.afdb.org/en/projects-and-operations/procurement/rss">>,
       <<"inter-american development bank", "https://www.iadb.org/en/rss">>,
       <<"inter american development bank", "https://www.iadb.org/en/rss">>,
       <<"idb", "https://www.iadb.org/en/rss">>,
       <<"green climate fund", "https://www.greenclimate.fund/rss.xml">>,
       <<"gcf", "https://www.greenclimate.fund/rss.xml">>,
       <<"global environment facility", "https://www.thegef.org/rss.xml">>,
       <<"gef", "https://www.thegef.org/rss.xml">> >>

\* SOURCE_FALLBACK_URLS[key]
FallbackFor(key) ==
    SOURCE_FALLBACK_URLS[CHOOSE k \in 1..Len(SOURCE_FALLBACK_URLS) : SOURCE_FALLBACK_URLS[k][1] = key][2]

\* the for loop over SOURCE_FALLBACK_URLS.items(), in insertion order: the URL of
\* the first key that is in the name
FirstFallback(normalized) ==
    LET hits == {k \in 1..Len(SOURCE_FALLBACK_URLS) : Contains(normalized, SOURCE_FALLBACK_URLS[k][1])}
    IN  IF hits = {} THEN "" ELSE SOURCE_FALLBACK_URLS[Least(hits)][2]

\* the two "un news" tests in the other order
FallbackOfEconomicFirst(normalized) ==
    IF normalized = "" THEN ""
    ELSE IF /\ Contains(normalized, "un news")
            /\ (Contains(normalized, "economic") \/ Contains(normalized, "development"))
    THEN FallbackFor("un news economic")
    ELSE IF Contains(normalized, "un news") /\ Contains(normalized, "humanitarian")
    THEN FallbackFor("un news humanitarian")
    ELSE FirstFallback(normalized)

\* source_fallback_url from `normalized` on
FallbackOf(normalized) ==
    IF normalized = "" THEN ""
    ELSE IF Contains(normalized, "un news") /\ Contains(normalized, "humanitarian")
    THEN FallbackFor("un news humanitarian")
    ELSE IF /\ Contains(normalized, "un news")
            /\ (Contains(normalized, "economic") \/ Contains(normalized, "development"))
    THEN FallbackFor("un news economic")
    ELSE FirstFallback(normalized)

source_fallback_url(source_name) == FallbackOf(Lower(normalize_text(source_name)))

candidate_keys ==
    <<"opportunity_url", "canonical_url", "external_url", "source_url", "article_url", "url", "link">>

NonEmpty(s) == s # ""

\* candidate_values: the normalized non-empty values of candidate_keys, in key order,
\* then the URLs found in the summary and raw_content text
candidate_values(raw) ==
    SelectSeq([k \in 1..Len(candidate_keys) |-> normalize_text(Get(raw, candidate_keys[k]))], NonEmpty)
    \o extract_urls_from_text(
           Join(<<Or(Get(raw, "summary"), Get(raw, "description")),
                  Or(Get(raw, "raw_content"), Get(raw, "content"))>>, " "))

NotPlaceholder(candidate) == ~is_placeholder_url(candidate)

valid_candidates(raw) == SelectSeq(candidate_values(raw), is_http_url)

\* the candidates without the placeholder filter
placeholders_kept(raw) == valid_candidates(raw)

non_placeholder(raw) == SelectSeq(valid_candidates(raw), NotPlaceholder)

\* select_best_url without the source-name fallback
BestOfOwnCandidates(candidates, raw) ==
    IF Len(candidates) > 0 THEN normalize_text(candidates[1]) ELSE ""

\* select_best_url from `if non_placeholder:` on
BestOf(candidates, raw) ==
    IF Len(candidates) > 0 THEN normalize_text(candidates[1])
    ELSE source_fallback_url(normalize_text(Or(Get(raw, "feed_source"), Get(raw, "source"))))

select_best_url(raw) == BestOf(non_placeholder(raw), raw)

-----------------------------------------------------------------------------
(* Timestamps.  A datetime is a number of seconds since 2026-10-01T00:00:00Z.
   A raw timestamp value is its text together with what dateutil's parser makes
   of that text: kind "naive" (wall-clock time, no zone), "aware" (wall-clock
   time and UTC offset in seconds), "time_only" (a time of day, in wall: the
   parser takes the date from the machine's clock) or "unparsable" (the parser
   raises).  The falsy value (absent, None, "") is the one with empty text. *)

Day == 86400

None == -1

NoTimestamp == [text |-> "", kind |-> "unparsable", wall |-> 0, off |-> 0]

GetTs(raw, key) == IF key \in DOMAIN raw THEN raw[key] ELSE NoTimestamp

timestamp_keys ==
    <<"timestamp", "pubDate", "published", "published_at", "published_date",
      "isoDate", "date", "created_at", "updated_at">>

\* item.get("timestamp") or item.get("pubDate") or ... or item.get("updated_at")
FirstTimestamp(raw) ==
    LET truthy == {k \in 1..Len(timestamp_keys) : GetTs(raw, timestamp_keys[k]).text # ""}
    IN  IF truthy = {} THEN NoTimestamp ELSE GetTs(raw, timestamp_keys[Least(truthy)])

\* date_parser.parse fills the fields a string leaves out from its default, which
\* is the midnight that began the local date of the wall clock: `clock`
parse_timestamp(value, clock) ==
    IF value.text = "" THEN None
    ELSE IF value.kind = "unparsable" THEN None
    ELSE IF value.kind = "time_only" THEN clock + value.wall
    ELSE IF value.kind = "naive" THEN value.wall
    ELSE value.wall - value.off

-----------------------------------------------------------------------------
(* coerce_item *)

Digits == "0123456789"

IsDigit(c) == IndexIn(Digits, c) > 0

\* the end (exclusive) of the run of characters of `class` that starts at i
RunEnd(s, i, class) ==
    IF \E j \in i..Len(s) : IndexIn(class, Char(s, j)) = 0
    THEN Least({j \in i..Len(s) : IndexIn(class, Char(s, j)) = 0})
    ELSE Max(i, Len(s) + 1)

\* after "$" or a currency code at i (re.IGNORECASE: low is text lower-cased), else 0
MoneyPrefixEnd(text, low, i) ==
    IF StartsWithAt(text, i, "$") THEN i + 1
    ELSE IF \E code \in {"usd", "eur", "gbp"} : StartsWithAt(low, i, code) THEN i + 3
    ELSE 0

\* \s? : one white-space character at j is taken
SkipSpace(text, j) == IF j <= Len(text) /\ IsSpace(Char(text, j)) THEN j + 1 ELSE j

\* (?:\.\d+)? from digits_end
MoneyFractionEnd(text, digits_end) ==
    IF /\ StartsWithAt(text, digits_end, ".")
       /\ digits_end + 1 <= Len(text)
       /\ IsDigit(Char(text, digits_end + 1))
    THEN RunEnd(text, digits_end + 1, Digits)
    ELSE digits_end

\* (?:\s?(?:million|billion|m|bn))? from fraction_end, the word tried at word_start
MoneyWordEnd(low, fraction_end, word_start) ==
    IF StartsWithAt(low, word_start, "million") THEN word_start + 7
    ELSE IF StartsWithAt(low, word_start, "billion") THEN word_start + 7
    ELSE IF StartsWithAt(low, word_start, "m") THEN word_start + 1
    ELSE IF StartsWithAt(low, word_start, "bn") THEN word_start + 2
    ELSE fraction_end

MoneyAfterNumber(text, low, fraction_end) == MoneyWordEnd(low, fraction_end, SkipSpace(text, fraction_end))

\* \d[\d,]* at first_digit and what follows, else 0
MoneyNumber(text, low, first_digit) ==
    IF first_digit > Len(text) \/ ~IsDigit(Char(text, first_digit)) THEN 0
    ELSE MoneyAfterNumber(text, low, MoneyFractionEnd(text, RunEnd(text, first_digit + 1, "0123456789,")))

MoneyAfterPrefix(text, low, after_prefix) ==
    IF after_prefix = 0 THEN 0 ELSE MoneyNumber(text, low, SkipSpace(text, after_prefix))

\* the end (exclusive) of a MONEY_PATTERN match that starts at i, else 0
MoneyEnd(text, low, i) == MoneyAfterPrefix(text, low, MoneyPrefixEnd(text, low, i))

\* MONEY_PATTERN.search(text): the leftmost match, "" when there is none
MoneyMatchFrom(text, low, starts) ==
    IF starts = {} THEN "" ELSE SubSeq(text, Least(starts), MoneyEnd(text, low, Least(starts)) - 1)

MoneySearch(text, low) == MoneyMatchFrom(text, low, {i \in 1..Len(text) : MoneyEnd(text, low, i) > 0})

extract_money_value(text) == IF text = "" THEN "" ELSE normalize_text(MoneySearch(text, Lower(text)))

sector_rules ==
    << [label |-> "Agriculture", tokens |-> <<"agriculture", "agrifood", "farming", "crop", "food security">>],
       [label |-> "Climate & Environment", tokens |-> <<"climate", "environment", "resilience", "biodiversity", "conservation">>],
       [label |-> "Water, Sanitation & Hygiene", tokens |-> <<"wash", "sanitation", "water", "hygiene">>],
       [label |-> "Health", tokens |-> <<"health", "hospital", "disease", "medical", "vaccine">>],
       [label |-> "Education", tokens |-> <<"education", "schools", "learning", "curriculum">>],
       [label |-> "Energy", tokens |-> <<"energy", "renewable", "solar", "grid", "power">>],
       [label |-> "Digital & ICT", tokens |-> <<"digital", "ict", "data", "connectivity", "platform">>] >>

\* the label of the first rule one of whose tokens is in the text
FirstSector(lowered) ==
    LET hits == {k \in 1..Len(sector_rules) : AnyIn(sector_rules[k].tokens, lowered)}
    IN  IF hits = {} THEN "" ELSE sector_rules[Least(hits)].label

detect_sector(text, categories) == FirstSector(Lower(text \o " " \o Join(categories, " ")))

\* item.get("categories") when it is a list of strings (absent: no list)
GetList(raw, key) == IF key \in DOMAIN raw THEN raw[key] ELSE <<>>

\* str(entry).strip() is non-empty
HasNonSpace(s) == \E i \in 1..Len(s) : ~IsSpace(Char(s, i))

category_values(raw) == SelectSeq(GetList(raw, "categories"), HasNonSpace)

coerce_combined_text(raw) ==
    normalize_text(Join(<<Get(raw, "title"),
                          Or(Get(raw, "summary"), Get(raw, "description")),
                          Or(Get(raw, "raw_content"), Get(raw, "content"))>>, " "))

explicit_amount(raw) ==
    normalize_text(Or(Get(raw, "amount"), Or(Get(raw, "grant_amount"),
                   Or(Get(raw, "funding_amount"), Get(raw, "value")))))

explicit_sector(raw) == normalize_text(Or(Get(raw, "sector"), Get(raw, "focus_sector")))

\* extracted_amount = explicit_amount or extract_money_value(combined_text), and
\* inferred_sector = explicit_sector or detect_sector(combined_text, category_values)
Inferred(raw, text, categories) ==
    [sector |-> Or(explicit_sector(raw), detect_sector(text, categories)),
     funding_amount |-> Or(explicit_amount(raw), extract_money_value(text))]

CoerceWith(raw, inferred) ==
        [timestamp |-> FirstTimestamp(raw),
         feed_source |-> normalize_text(Or(Get(raw, "feed_source"), Or(Get(raw, "source"), "Unknown Source"))),
         title |-> normalize_text(Or(Get(raw, "title"), "Untitled item")),
         url |-> select_best_url(raw),
         summary |-> normalize_text(Or(Get(raw, "summary"), Or(Get(raw, "description"), Get(raw, "contentSnippet")))),
         raw_content |-> normalize_text(Or(Get(raw, "raw_content"), Or(Get(raw, "content"), Get(raw, "content:encoded")))),
         author |-> normalize_text(Get(raw, "author")),
         categories |-> category_values(raw),
         sector |-> inferred.sector,
         funding_amount |-> inferred.funding_amount]

coerce_item(raw) == CoerceWith(raw, Inferred(raw, coerce_combined_text(raw), category_values(raw)))

-----------------------------------------------------------------------------
(* dedupe_key.  hashlib.sha256 is taken to be collision-free: the digest of the
   joined text is the text itself, marked; no digest equals a URL. *)

sha256(joined) == "sha256(" \o joined \o ")"

\* dedupe_key without .lower() on the URL
dedupe_key_case_sensitive(it) ==
    IF it.url # "" THEN it.url
    ELSE sha256(Join(<<Lower(it.title), Lower(it.summary), Lower(it.feed_source), it.timestamp.text>>, "|"))

dedupe_key(it) ==
    IF it.url # "" THEN Lower(it.url)
    ELSE sha256(Join(<<Lower(it.title), Lower(it.summary), Lower(it.feed_source), it.timestamp.text>>, "|"))

-----------------------------------------------------------------------------
(* Scoring *)

region_tokens ==
    <<"global", "africa", "asia", "latin america", "middle east", "europe",
      "caribbean", "pacific", "ukraine", "sudan", "gaza">>

\* the first token that is in the text, title-cased
FirstRegion(lower_text) ==
    LET hits == {k \in 1..Len(region_tokens) : Contains(lower_text, region_tokens[k])}
    IN  IF hits = {} THEN "" ELSE Title(region_tokens[Least(hits)])

detect_region(text) == FirstRegion(Lower(text))

irrelevant_tokens ==
    <<"opinion", "thought leadership", "podcast", "webinar recap", "newsletter",
      "career", "hiring", "product release", "generic update">>

\* f"{item['title']} {item['summary']} {item['raw_content']}".lower()
item_text(it) == Lower(it.title \o " " \o it.summary \o " " \o it.raw_content)

\* is_irrelevant without the second rule's `"call" not in text and "fund" not in text`
is_irrelevant_any_blog(it, category, strength) ==
    \/ AnyIn(irrelevant_tokens, item_text(it))
    \/ category = "Development Program" /\ strength = 1 /\ Contains(item_text(it), "blog")

is_irrelevant(it, category, strength) ==
    \/ AnyIn(irrelevant_tokens, item_text(it))
    \/ /\ category = "Development Program"
       /\ strength = 1
       /\ Contains(item_text(it), "blog")
       /\ ~Contains(item_text(it), "call")
       /\ ~Contains(item_text(it), "fund")

\* (now_utc - ts).days: whole days, rounded down
age_days(ts, now) == (now - ts) \div Day

recency_score(ts, now) ==
    IF age_days(ts, now) <= 7 THEN 3
    ELSE IF age_days(ts, now) <= 14 THEN 2
    ELSE 1

high_impact_tokens ==
    <<"global", "multi-country", "nationwide", "emergency", "appeal", "million", "billion", "urgent">>

medium_impact_tokens ==
    <<"regional", "national", "program", "policy", "agriculture", "health",
      "education", "climate", "food security">>

impact_score(it, category) ==
    IF AnyIn(high_impact_tokens, item_text(it)) THEN 2
    ELSE IF \/ AnyIn(medium_impact_tokens, item_text(it))
            \/ category \in {"Funding", "Procurement", "Humanitarian Update"}
    THEN 1
    ELSE 0

fields_present(it, region) ==
    (IF it.title # "" THEN 1 ELSE 0)
    + (IF it.summary # "" \/ it.raw_content # "" THEN 1 ELSE 0)
    + (IF it.url # "" THEN 1 ELSE 0)
    + (IF it.feed_source # "" \/ it.author # "" THEN 1 ELSE 0)
    + (IF region # "" THEN 1 ELSE 0)

completeness_score(it, region) ==
    IF fields_present(it, region) >= 5 THEN 2
    ELSE IF fields_present(it, region) >= 3 THEN 1
    ELSE 0

\* priority_for_score with > in place of >=
priority_for_score_strict(score) ==
    IF score > 8 THEN "HIGH PRIORITY"
    ELSE IF score > 5 THEN "MEDIUM PRIORITY"
    ELSE "LOW PRIORITY"

priority_for_score(score) ==
    IF score >= 8 THEN "HIGH PRIORITY"
    ELSE IF score >= 5 THEN "MEDIUM PRIORITY"
    ELSE "LOW PRIORITY"

derive_opportunity_type(category) ==
    IF category = "Funding" THEN "Grant/Funding"
    ELSE IF category = "Procurement" THEN "Tender/Procurement"
    ELSE IF category = "Humanitarian Update" THEN "Humanitarian"
    ELSE IF category = "Policy Update" THEN "Policy"
    ELSE "Program"

\* f"{title} {summary} {raw_content} {' '.join(categories)}"
combined_text(it) ==
    it.title \o " " \o it.summary \o " " \o it.raw_content \o " " \o Join(it.categories, " ")

\* the score with the signal strength counted twice and no clamp
total_score_double_strength(recency, signal_strength, impact, completeness) ==
    recency + 2 * signal_strength + impact + completeness

\* max(1, min(10, recency + signal_strength + impact + completeness))
total_score(recency, signal_strength, impact, completeness) ==
    Max(1, Min(10, recency + signal_strength + impact + completeness))

\* score_item: <<>> is None, <<x>> the IntelItem x
score_item(it, timestamp, now) ==
    LET classified == classify_signal(combined_text(it))
        category == classified.category
        signal_strength == classified.strength
        recency == recency_score(timestamp, now)
        region == detect_region(combined_text(it))
        impact == impact_score(it, category)
        completeness == completeness_score(it, region)
        score == total_score(recency, signal_strength, impact, completeness)
    IN  IF is_irrelevant(it, category, signal_strength) THEN <<>>
        ELSE << [timestamp |-> timestamp,
                 feed_source |-> it.feed_source,
                 title |-> it.title,
                 url |-> it.url,
                 summary |-> it.summary,
                 raw_content |-> it.raw_content,
                 author |-> it.author,
                 categories |-> it.categories,
                 category |-> category,
                 sector |-> it.sector,
                 funding_amount |-> it.funding_amount,
                 opportunity_type |-> derive_opportunity_type(category),
                 key_signal |-> classified.signal,
                 score |-> score,
                 priority |-> priority_for_score(score)] >>

-----------------------------------------------------------------------------
(* final_items.sort(key=lambda entry: (entry.score, entry.timestamp), reverse=True) *)

\* (a.score, a.timestamp) < (b.score, b.timestamp)
KeyLess(a, b) == a.score < b.score \/ (a.score = b.score /\ a.timestamp < b.timestamp)

RECURSIVE InsertAscending(_, _)
\* x put after every entry whose key is not greater than x's
InsertAscending(sorted, x) ==
    IF Len(sorted) = 0 THEN <<x>>
    ELSE IF KeyLess(x, Head(sorted)) THEN <<x>> \o sorted
    ELSE <<Head(sorted)>> \o InsertAscending(Tail(sorted), x)

RECURSIVE SortAscendingFrom(_, _, _)
SortAscendingFrom(items, k, sorted) ==
    IF k > Len(items) THEN sorted
    ELSE SortAscendingFrom(items, k + 1, InsertAscending(sorted, items[k]))

\* the sort without reverse=True
sort_ascending(items) == SortAscendingFrom(items, 1, <<>>)

RECURSIVE InsertDescending(_, _)
\* x put after every entry whose key is not less than x's: list.sort is stable,
\* and with reverse=True entries of equal key keep their original order
InsertDescending(sorted, x) ==
    IF Len(sorted) = 0 THEN <<x>>
    ELSE IF KeyLess(Head(sorted), x) THEN <<x>> \o sorted
    ELSE <<Head(sorted)>> \o InsertDescending(Tail(sorted), x)

RECURSIVE SortDescendingFrom(_, _, _)
SortDescendingFrom(items, k, sorted) ==
    IF k > Len(items) THEN sorted
    ELSE SortDescendingFrom(items, k + 1, InsertDescending(sorted, items[k]))

sort_by_score_and_timestamp(items) == SortDescendingFrom(items, 1, <<>>)

-----------------------------------------------------------------------------
(* summarize_sources.  counts, a dict, is the sequence of its (label, count)
   rows in insertion order. *)

\* the characters of the source labels, in code point order
CodePoints == " &,-./0123456789:ABCDEFGHIJKLMNOPQRSTUVWXYZ_abcdefghijklmnopqrstuvwxyz"

\* a < b, on strings
StrLess(a, b) ==
    LET differ == {i \in 1..Min(Len(a), Len(b)) : Char(a, i) # Char(b, i)}
    IN  IF differ = {} THEN Len(a) < Len(b)
        ELSE IndexIn(CodePoints, Char(a, Least(differ))) < IndexIn(CodePoints, Char(b, Least(differ)))

source_label(raw) ==
    normalize_text(Or(Get(raw, "feed_source"), Or(Get(raw, "source"), "Unknown Source")))

\* counts[source] = counts.get(source, 0) + 1
Counted(counts, source) ==
    IF \E k \in 1..Len(counts) : counts[k][1] = source
    THEN [k \in 1..Len(counts) |-> IF counts[k][1] = source THEN <<source, counts[k][2] + 1>> ELSE counts[k]]
    ELSE Append(counts, <<source, 1>>)

RECURSIVE CountFrom(_, _, _)
CountFrom(raws, k, counts) ==
    IF k > Len(raws) THEN counts
    ELSE CountFrom(raws, k + 1, Counted(counts, source_label(raws[k])))

\* the sort key without .lower()
RowLessCaseSensitive(a, b) == a[2] > b[2] \/ (a[2] = b[2] /\ StrLess(a[1], b[1]))

\* (-a[1], a[0].lower()) < (-b[1], b[0].lower())
RowLess(a, b) == a[2] > b[2] \/ (a[2] = b[2] /\ StrLess(Lower(a[1]), Lower(b[1])))

RECURSIVE InsertRow(_, _)
\* sorted() is stable: x goes after every row whose key is not greater than x's
InsertRow(sorted, x) ==
    IF Len(sorted) = 0 THEN <<x>>
    ELSE IF RowLess(x, Head(sorted)) THEN <<x>> \o sorted
    ELSE <<Head(sorted)>> \o InsertRow(Tail(sorted), x)

RECURSIVE SortRowsFrom(_, _, _)
SortRowsFrom(rows, k, sorted) ==
    IF k > Len(rows) THEN sorted
    ELSE SortRowsFrom(rows, k + 1, InsertRow(sorted, rows[k]))

summarize_sources(raws) == SortRowsFrom(CountFrom(raws, 1, <<>>), 1, <<>>)

-----------------------------------------------------------------------------
(* check_url and validate_item_links.  What the network does to a request is
   the environment's choice among Answers: a response, an HTTPError with its
   code, a URLError, or another exception. *)

Answers ==
    {[kind |-> "response", code |-> 200, detail |-> ""],
     [kind |-> "http_error", code |-> 304, detail |-> "Not Modified"],
     [kind |-> "http_error", code |-> 400, detail |-> "Bad Request"],
     [kind |-> "http_error", code |-> 405, detail |-> "Method Not Allowed"],
     [kind |-> "http_error", code |-> 501, detail |-> "Not Implemented"],
     [kind |-> "url_error", code |-> 0, detail |-> "timed out"],
     [kind |-> "exception", code |-> 0, detail |-> "connection reset"]}

\* the GET is tried after every HTTPError
retry_with_get_on_any_http_error(answer) == answer.kind = "http_error"

\* `except url_error.HTTPError as exc: if exc.code in {405, 501}`
retry_with_get(answer) == answer.kind = "http_error" /\ answer.code \in {405, 501}

\* only `not entry.url`
skipped_when_empty(entry, checked) == entry.url = ""

\* `if not entry.url or entry.url in seen_urls: continue`
skipped(entry, checked) == entry.url = "" \/ entry.url \in checked

\* the row validate_item_links appends for what check_url returned
ResultRow(entry, status_code, detail) ==
    [title |-> entry.title, url |-> entry.url, status_code |-> status_code,
     ok |-> (200 <= status_code /\ status_code < 400), detail |-> detail]

\* what check_url returns for the answer that ends it
AnswerRow(entry, answer) ==
    ResultRow(entry, IF answer.kind \in {"response", "http_error"} THEN answer.code ELSE 0, answer.detail)

IsBroken(row) == ~row.ok

-----------------------------------------------------------------------------
(* main, up to the call of build_report_items *)

NoFile == [file |-> "missing"]

MalformedFile == [file |-> "malformed"]

\* payload, before --payload-json is looked at
EventPayload(event) ==
    IF IsDict(event) /\ JGet(event.dict, "client_payload") # JNull
    THEN JGet(event.dict, "client_payload")
    ELSE event

\* extract_items(payload), and extract_items(event_data) when that gives nothing
FirstItems(chosen, event) ==
    IF Len(extract_items(chosen)) > 0 THEN extract_items(chosen) ELSE extract_items(event)

\* the saved payload file is read when nothing was extracted and a path is given
Extracted(chosen, items, save_payload_path, saved) ==
    IF Len(items) = 0 /\ save_payload_path /\ saved # NoFile
    THEN IF saved = MalformedFile
         THEN [raises |-> "JSONDecodeError", payload |-> chosen, raw_items |-> <<>>]
         ELSE IF Len(extract_items(saved)) > 0
         THEN [raises |-> "", payload |-> saved, raw_items |-> extract_items(saved)]
         ELSE [raises |-> "", payload |-> chosen, raw_items |-> <<>>]
    ELSE [raises |-> "", payload |-> chosen, raw_items |-> items]

ExtractedFrom(chosen, event, save_payload_path, saved) ==
    Extracted(chosen, FirstItems(chosen, event), save_payload_path, saved)

\* main from `event_data = load_json(...)` to `if not raw_items: return`, as far as
\* payload and raw_items go; json.loads(args.payload_json) is in no try block
Extraction(event, arguments, saved) ==
    IF arguments.payload_json.str = "malformed"
    THEN [raises |-> "JSONDecodeError", payload |-> EventPayload(event), raw_items |-> <<>>]
    ELSE ExtractedFrom(IF arguments.payload_json.str = "blank" THEN EventPayload(event)
                       ELSE arguments.payload_json.loads,
                       event, arguments.save_payload_path, saved)

\* the mappings themselves
Unwrapped(items) == [k \in 1..Len(items) |-> items[k].dict]

-----------------------------------------------------------------------------
(* Inputs *)

MaxItems == 3

\* 2026-11-01T00:00:00Z
NowBase == 31 * Day

Nows == {NowBase, NowBase + 1}

Aware(text, wall, off) == [text |-> text, kind |-> "aware", wall |-> wall, off |-> off]

Naive(text, wall) == [text |-> text, kind |-> "naive", wall |-> wall, off |-> 0]

Unparsable(text) == [text |-> text, kind |-> "unparsable", wall |-> 0, off |-> 0]

\* a time of day and no date
TimeOnly(text, wall) == [text |-> text, kind |-> "time_only", wall |-> wall, off |-> 0]

\* the wall clock's date on a run: 2026-10-31 or 2026-11-01
Todays == {NowBase - Day, NowBase}

\* three days before NowBase, written three ways
Fresh == Aware("2026-10-29T00:00:00Z", 28 * Day, 0)

FreshNaive == Naive("2026-10-29 00:00:00", 28 * Day)

FreshOffset == Aware("2026-10-29T02:00:00+02:00", 28 * Day + 7200, 7200)

TenDays == Aware("2026-10-22T00:00:00Z", 21 * Day, 0)

\* 29 days before NowBase
TwentyNineDays == Aware("2026-10-03T00:00:00Z", 2 * Day, 0)

\* 30 days before NowBase exactly, 30 days and 1 second before NowBase + 1
ThirtyDays == Aware("2026-10-02T00:00:00Z", 1 * Day, 0)

RawPool ==
    { [title |-> "Emergency appeal: global relief fund", summary |-> "Flash appeal for Sudan",
       url |-> "https://a.org/x", source |-> "ReliefWeb", timestamp |-> Fresh],
      [title |-> "Urgent grant call", link |-> "HTTPS://A.ORG/X", timestamp |-> FreshNaive],
      [title |-> "Old tender", url |-> "https://a.org/x", timestamp |-> ThirtyDays],
      [title |-> "Tender notice", url |-> "https://a.org/x", pubDate |-> Unparsable("not a date")],
      [title |-> "Undated grant", url |-> "https://a.org/x"],
      [title |-> "Policy brief", timestamp |-> Fresh],
      [title |-> "Policy note", published |-> FreshNaive],
      [title |-> "Strategy note", timestamp |-> FreshOffset],
      [title |-> "Team blog", timestamp |-> TenDays],
      [title |-> "Blog: partnership call", timestamp |-> TenDays],
      [title |-> "Framework memo", timestamp |-> TimeOnly("12:00", 12 * 3600)],
      [title |-> "Weekly newsletter", url |-> "https://b.org/n", timestamp |-> Fresh],
      [title |-> "Health works", url |-> "https://b.org/n", categories |-> <<"podcast">>,
       timestamp |-> TwentyNineDays] }

\* the sequences over S of length at most n
SeqsUpTo(S, n) == UNION {[1..k -> S] : k \in 0..n}

MaxPhrases == 2

Phrases ==
    {"grant", "funding window", "open call", "apply now", "tender", "policy", "policy shift",
     "initiative", "partnership", "partnership call", "blog", "newsletter", "global emergency"}

\* the texts made of at most MaxPhrases phrases
Texts == {Join(phrases, " ") : phrases \in SeqsUpTo(Phrases, MaxPhrases)}

\* the feed's tags of a record: none, or two that the title does not repeat
TextCategories == {<<>>, <<"podcast", "call">>}

\* records that differ in their title and tags only
TextPool ==
    {[title |-> text, categories |-> tags, url |-> "https://a.org/x", timestamp |-> Fresh] :
        text \in Texts, tags \in TextCategories}

UrlValues ==
    {"", "https://a.org/x", "HTTP://Example.COM:80/a", "http://:80/x", "ftp://a.org/f",
     "https://user@LocalHost/", "http://[bad/x", "//a.org/x", "https://b.org/ y"}

UrlTexts == {"", "see (https://www.example.net/a), http://c.org/p.", "at HTTPS://d.org, or 'http://"}

UrlSources == {"", "ReliefWeb", "UN News - Humanitarian Aid"}

\* records that differ in where a URL can come from
UrlPool ==
    {[title |-> "Grant", url |-> url, link |-> link, summary |-> text, source |-> source, timestamp |-> Fresh] :
        url \in UrlValues, link \in UrlValues, text \in UrlTexts, source \in UrlSources}

MaxWords == 2

NameWords ==
    {"UN News", "Humanitarian", "Economic Humanitarian", "development", "Economic", "ReliefWeb",
     "Asian Development Bank", "ADB", "United Nations", "Zeta", "World  Bank"}

\* the source names made of at most MaxWords of NameWords
SourceNames == {Join(words, " ") : words \in SeqsUpTo(NameWords, MaxWords)}

\* records with a source name and nothing a URL could be taken from
NamePool == {[title |-> "Grant", source |-> name, timestamp |-> Fresh] : name \in SourceNames}

MaxKeyed == 2

\* records whose URL comes from the source-name fallback, if from anywhere, and
\* records with no URL at all that differ in the fields dedupe_key joins and in
\* the fields it leaves out
KeyPool ==
    {[title |-> "Urgent grant call", source |-> "ADB", timestamp |-> Fresh],
     [title |-> "Policy brief", summary |-> "Health tender", source |-> "Asian Development Bank",
      timestamp |-> TenDays],
     [title |-> "Team blog", url |-> "https://example.com/x", source |-> "adb news", timestamp |-> Fresh],
     [title |-> "Undated grant", source |-> "ADB"],
     [title |-> "Strategy note", source |-> "ReliefWeb", timestamp |-> Fresh],
     [title |-> "Grant round", url |-> "https://a.org/x", source |-> "ADB", timestamp |-> Fresh],
     [title |-> "a|b", summary |-> "c", source |-> "Zeta", timestamp |-> Fresh],
     [title |-> "a", summary |-> "b|c", source |-> "Zeta", timestamp |-> Fresh],
     [title |-> "A|B", summary |-> "C", source |-> "ZETA", timestamp |-> Fresh, raw_content |-> "more",
      author |-> "Ann", categories |-> <<"health">>, sector |-> "Health", amount |-> "USD 5 million"],
     [title |-> "a|b", summary |-> "c", source |-> "Zeta", timestamp |-> FreshNaive],
     [title |-> "Grant call", summary |-> "c", source |-> "Zeta", timestamp |-> Fresh]}

FieldTitles == {"", "   ", "Grant call", " Grant  call\t"}

FieldSources == {"", " \t", "ReliefWeb", "World  Bank "}

\* records with every combination of title, feed_source and source, and records
\* that lack those keys
FieldPool ==
    {[title |-> title, feed_source |-> feed_source, source |-> source, timestamp |-> Fresh] :
        title \in FieldTitles, feed_source \in FieldSources, source \in FieldSources}
    \cup {[timestamp |-> Fresh], [source |-> "ADB", timestamp |-> Fresh], [title |-> "\n", timestamp |-> Fresh]}

EntryA == [title |-> "Weekly newsletter", url |-> "https://b.org/n", timestamp |-> Fresh]

EntryB == [title |-> "Old tender", url |-> "https://a.org/x", timestamp |-> ThirtyDays]

\* a mapping with the key when a value is chosen for it, and without the key
Optional(key, values) == {<<>>} \cup {key :> value : value \in values}

EntryLists ==
    {<<>>, <<JNumber, JText(JDict(EntryB))>>, <<JDict(EntryA)>>, <<JNull, JDict(EntryA), JDict(EntryB)>>}

Leaves ==
    {JNull, JNumber, JBlank, JMalformed, JText(JNumber), JText(JText(JList(<<JDict(EntryA)>>)))}
    \cup {JList(entries) : entries \in EntryLists}
    \cup {JText(JList(entries)) : entries \in EntryLists}

Envelopes ==
    {JDict(items @@ data @@ wrapped @@ client @@ event @@ own) :
        items \in Optional("items", {JNumber, JList(<<>>), JList(<<JNumber, JDict(EntryA)>>)}),
        data \in Optional("data", {JList(<<JDict(EntryB)>>)}),
        wrapped \in Optional("payload", {JMalformed, JText(JList(<<JDict(EntryA)>>)),
                                         JDict("items" :> JList(<<>>)), JDict(EntryB),
                                         JDict("event" :> JText(JDict(EntryA)))}),
        client \in Optional("client_payload", {JList(<<JDict(EntryB)>>)}),
        event \in Optional("event", {JDict("body" :> JList(<<JDict(EntryA), JDict(EntryB)>>))}),
        own \in {<<>>, "title" :> "Note", ("title" :> "Note") @@ ("url" :> "https://c.org/n")}}

PayloadPool == Leaves \cup Envelopes

EntryC == [title |-> "Urgent grant call", url |-> "https://a.org/x", timestamp |-> Fresh]

EntryD == [title |-> "Policy brief", link |-> "https://c.org/p", timestamp |-> Fresh]

EntryE == [title |-> "Strategy note", timestamp |-> Fresh]

\* the contents of the event file
EventPool ==
    {JNull,
     JDict("action" :> "opened"),
     JDict("client_payload" :> JMalformed),
     JDict("client_payload" :> JText(JList(<<JDict(EntryC), JDict(EntryE)>>))),
     JDict("client_payload" :> JDict("items" :> JList(<<JDict(EntryC), JDict(EntryD)>>))),
     JDict(("client_payload" :> JDict("note" :> "none")) @@ ("items" :> JList(<<JDict(EntryD)>>))),
     JDict("client_payload" :> JDict("payload" :> JText(JText(JMalformed)))),
     JList(<<JDict(EntryE), JDict(EntryA)>>)}

\* the values of --payload-json
PayloadArguments == {JBlank, JMalformed, JText(JList(<<JDict(EntryD)>>)), JText(JDict("items" :> JNumber))}

\* the saved payload file
SavedFiles == {NoFile, MalformedFile, JDict("items" :> JList(<<JDict(EntryC)>>))}

ArgumentPool ==
    [payload_json : PayloadArguments, save_payload_path : BOOLEAN, validate_links : BOOLEAN,
     fail_on_broken_links : BOOLEAN]

MaxLinks == 3

LinkRawPool ==
    {[title |-> "Urgent grant call", url |-> "https://a.org/x", timestamp |-> Fresh],
     [title |-> "Policy brief", link |-> "https://a.org/x", timestamp |-> Fresh],
     [title |-> "Strategy note", timestamp |-> Fresh],
     [title |-> "Emergency appeal: global relief fund", url |-> "HTTPS://B.org/y", timestamp |-> Fresh]}

SourcePool ==
    {[title |-> "Urgent grant call", source |-> "adb", timestamp |-> Fresh],
     [title |-> "Policy brief", source |-> "Zeta Fund", timestamp |-> Fresh],
     [title |-> "Old note", feed_source |-> "ADB", source |-> "adb"],
     [title |-> "Strategy note", timestamp |-> Fresh],
     [title |-> "Team blog", source |-> " adb ", timestamp |-> Fresh],
     [title |-> "Tender notice", source |-> "Adb", timestamp |-> Unparsable("not a date")]}

-----------------------------------------------------------------------------
(* build_report_items, one action per iteration of its for loop and one for the
   sort and return.  item and signal are the locals of the last iteration;
   fate[k] names the way raw_items[k] left the loop body, and raw_index in an
   entry of final_items is the position of the raw record it was built from:
   both are history, read by no action.  today is the date of the wall clock,
   which date_parser.parse reads; run counts the calls of build_report_items
   and previous is what the call before returned. *)

NoArguments ==
    [payload_json |-> JBlank, save_payload_path |-> FALSE, validate_links |-> FALSE,
     fail_on_broken_links |-> FALSE]

\* validate_item_links has not been called
NotValidated ==
    /\ seen_urls = {}
    /\ link_results = <<>>
    /\ link_pos = 1
    /\ requests = <<>>

\* main has done nothing
NotRun ==
    /\ result = JNull
    /\ saved_payload = NoFile
    /\ exit_code = None
    /\ raised = ""
    /\ source_counts = <<>>
    /\ NotValidated

\* nothing outside build_report_items takes part
Idle ==
    /\ payload = JNull
    /\ args = NoArguments
    /\ event_data = JNull
    /\ NotRun

\* what one iteration computes from its raw record
ComputedFrom(it, now, clock) ==
    [item |-> it,
     timestamp |-> parse_timestamp(it.timestamp, clock),
     key |-> dedupe_key(it),
     signal |-> classify_signal(combined_text(it)),
     scored |-> score_item(it, parse_timestamp(it.timestamp, clock), now)]

Computed(raw, now, clock) == ComputedFrom(coerce_item(raw), now, clock)

ComputedPool == [raw \in RawPool |-> [now \in Nows |-> [clock \in Todays |-> Computed(raw, now, clock)]]]

Locals(raw, now, clock) ==
    IF raw \in RawPool THEN ComputedPool[raw][now][clock] ELSE Computed(raw, now, clock)

Start(inputs, nows, clocks) ==
    /\ raw_items \in inputs
    /\ now_utc \in nows
    /\ today \in clocks
    /\ run = 1
    /\ previous = <<>>
    /\ pc = "loop"
    /\ pos = 1
    /\ seen = {}
    /\ final_items = <<>>
    /\ item = "none"
    /\ signal = "none"
    /\ fate = <<>>
    /\ Idle

Init == Start(SeqsUpTo(RawPool, MaxItems), Nows, Todays)

\* one record, from the pool of texts
InitText == Start({<<raw>> : raw \in TextPool}, {NowBase}, {NowBase})

\* one record, from the pool of URL sources
InitUrl == Start({<<raw>> : raw \in UrlPool}, {NowBase}, {NowBase})

\* one record, from the pool of titles and sources
InitFields == Start({<<raw>> : raw \in FieldPool}, {NowBase}, {NowBase})

\* at most MaxKeyed records, from the pool of records for dedupe_key
InitKeys == Start(SeqsUpTo(KeyPool, MaxKeyed), {NowBase}, {NowBase})

\* one record, from the pool of source names
InitFallback == Start({<<raw>> : raw \in NamePool}, {NowBase}, {NowBase})

\* `if timestamp < thirty_days_ago` with <= : an item exactly 30 days old is dropped
too_old_inclusive(timestamp, now) == timestamp <= now - 30 * Day

\* `if timestamp < thirty_days_ago`
too_old(timestamp, now) == timestamp < now - 30 * Day

\* the key is registered only when the item is published
seen_add_when_published(registered, locals) ==
    IF Len(locals.scored) = 0 THEN registered ELSE registered \cup {locals.key}

\* seen.add(key), which comes before score_item is called
seen_add(registered, locals) == registered \cup {locals.key}

\* the body of the for loop, given what it computes from raw_items[pos]
LoopBody(locals) ==
    /\ item' = locals.item
    /\ IF locals.timestamp = None
       THEN /\ fate' = Append(fate, "no_timestamp")
            /\ UNCHANGED <<seen, final_items, signal>>
       ELSE IF too_old(locals.timestamp, now_utc)
       THEN /\ fate' = Append(fate, "too_old")
            /\ UNCHANGED <<seen, final_items, signal>>
       ELSE IF locals.key \in seen
       THEN /\ fate' = Append(fate, "duplicate")
            /\ UNCHANGED <<seen, final_items, signal>>
       ELSE /\ seen' = seen_add(seen, locals)
            /\ signal' = locals.signal
            /\ IF Len(locals.scored) = 0
               THEN /\ fate' = Append(fate, "irrelevant")
                    /\ UNCHANGED final_items
               ELSE /\ fate' = Append(fate, "published")
                    /\ final_items' = Append(final_items, locals.scored[1] @@ [raw_index |-> pos])

Iterate ==
    /\ pc = "loop"
    /\ pos <= Len(raw_items)
    /\ LoopBody(Locals(raw_items[pos], now_utc, today))
    /\ pos' = pos + 1
    /\ UNCHANGED <<raw_items, now_utc, today, run, previous, pc, outer>>

SortAndReturn ==
    /\ pc = "loop"
    /\ pos > Len(raw_items)
    /\ final_items' = sort_by_score_and_timestamp(final_items)
    /\ pc' = "done"
    /\ UNCHANGED <<raw_items, now_utc, today, run, previous, pos, seen, item, signal, fate, outer>>

\* build_report_items is called a second time with the same raw_items and the same
\* now_utc, the wall clock being where it was or a day on; `previous` keeps what the
\* first call returned
Rerun ==
    /\ pc = "done"
    /\ run = 1
    /\ run' = 2
    /\ previous' = final_items
    /\ today' \in {clock \in Todays : clock >= today}
    /\ pc' = "loop"
    /\ pos' = 1
    /\ seen' = {}
    /\ final_items' = <<>>
    /\ item' = "none"
    /\ signal' = "none"
    /\ fate' = <<>>
    /\ UNCHANGED <<raw_items, now_utc, outer>>

Next == Iterate \/ SortAndReturn \/ Rerun

\* the state of build_report_items before it is called
NotCalled ==
    /\ raw_items = <<>>
    /\ now_utc = NowBase
    /\ today = NowBase
    /\ run = 1
    /\ previous = <<>>
    /\ pos = 1
    /\ seen = {}
    /\ final_items = <<>>
    /\ item = "none"
    /\ signal = "none"
    /\ fate = <<>>

\* extract_items is called on a value of PayloadPool
InitExtract ==
    /\ NotCalled
    /\ pc = "extract_items"
    /\ payload \in PayloadPool
    /\ args = NoArguments
    /\ event_data = JNull
    /\ NotRun

ExtractItems ==
    /\ pc = "extract_items"
    /\ result' = extract_items(payload)
    /\ pc' = "returned"
    /\ UNCHANGED <<raw_items, now_utc, today, run, previous, pos, seen, final_items, item, signal, fate>>
    /\ UNCHANGED <<payload, args, event_data, saved_payload, exit_code, raised, source_counts, links>>

SpecExtract == InitExtract /\ [][ExtractItems]_vars

-----------------------------------------------------------------------------
(* main.  An exception that leaves main ends the process with exit code 1;
   raised names it. *)

InitMain ==
    /\ NotCalled
    /\ pc = "main"
    /\ payload = JNull
    /\ event_data \in EventPool
    /\ args \in ArgumentPool
    /\ result = JNull
    /\ saved_payload \in SavedFiles
    /\ exit_code = None
    /\ raised = ""
    /\ source_counts = <<>>
    /\ NotValidated

\* main from line 955 to line 987, given what Extraction found
MainFrom(got) ==
    /\ raised' = got.raises
    /\ payload' = got.payload
    /\ raw_items' = Unwrapped(got.raw_items)
    /\ saved_payload' = IF got.raises = "" /\ args.save_payload_path /\ Len(got.raw_items) > 0
                        THEN got.payload ELSE saved_payload
    /\ IF got.raises # "" THEN exit_code' = 1 /\ pc' = "exited"
       ELSE IF Len(got.raw_items) = 0 THEN exit_code' = 0 /\ pc' = "exited"
       ELSE exit_code' = None /\ pc' = "loop"

Main ==
    /\ pc = "main"
    /\ MainFrom(Extraction(event_data, args, saved_payload))
    /\ UNCHANGED <<now_utc, today, run, previous, pos, seen, final_items, item, signal, fate>>
    /\ UNCHANGED <<result, args, event_data, source_counts, links>>

\* source_counts = summarize_sources(raw_items), after build_report_items returned
Summarize ==
    /\ pc = "done"
    /\ source_counts' = summarize_sources(raw_items)
    /\ pc' = IF args.validate_links THEN "validate" ELSE "write"
    /\ UNCHANGED <<raw_items, now_utc, today, run, previous, pos, seen, final_items, item, signal, fate>>
    /\ UNCHANGED <<payload, result, args, event_data, saved_payload, exit_code, raised, links>>

\* an iteration of validate_item_links that ends at `continue`
SkipEntry ==
    /\ pc = "validate"
    /\ link_pos <= Len(final_items)
    /\ skipped(final_items[link_pos], seen_urls)
    /\ link_pos' = link_pos + 1
    /\ UNCHANGED <<raw_items, now_utc, today, run, previous, pc, pos, seen, final_items, item, signal, fate>>
    /\ UNCHANGED <<payload, result, args, event_data, saved_payload, exit_code, raised, source_counts>>
    /\ UNCHANGED <<seen_urls, link_results, requests>>

\* check_url up to the end of the HEAD request, for an entry that is not skipped
HeadRequestOf(entry) ==
    /\ seen_urls' = seen_urls \cup {entry.url}
    /\ IF url_raises(entry.url)
       THEN /\ raised' = "ValueError"
            /\ exit_code' = 1
            /\ pc' = "exited"
            /\ UNCHANGED <<link_results, link_pos, requests>>
       ELSE IF url_scheme(entry.url) \notin {"http", "https"}
       THEN /\ link_results' = Append(link_results, ResultRow(entry, 0, "unsupported URL scheme"))
            /\ link_pos' = link_pos + 1
            /\ UNCHANGED <<requests, pc, raised, exit_code>>
       ELSE \E answer \in Answers :
               /\ requests' = Append(requests, [url |-> entry.url, method |-> "HEAD", answer |-> answer])
               /\ IF retry_with_get(answer)
                  THEN pc' = "get" /\ UNCHANGED <<link_results, link_pos>>
                  ELSE /\ link_results' = Append(link_results, AnswerRow(entry, answer))
                       /\ link_pos' = link_pos + 1
                       /\ pc' = "validate"
               /\ UNCHANGED <<raised, exit_code>>

HeadRequest ==
    /\ pc = "validate"
    /\ link_pos <= Len(final_items)
    /\ ~skipped(final_items[link_pos], seen_urls)
    /\ HeadRequestOf(final_items[link_pos])
    /\ UNCHANGED <<raw_items, now_utc, today, run, previous, pos, seen, final_items, item, signal, fate>>
    /\ UNCHANGED <<payload, result, args, event_data, saved_payload, source_counts>>

\* the GET request of check_url and the row for what it returns
GetRequest ==
    /\ pc = "get"
    /\ \E answer \in Answers :
          /\ requests' = Append(requests, [url |-> final_items[link_pos].url, method |-> "GET", answer |-> answer])
          /\ link_results' = Append(link_results, AnswerRow(final_items[link_pos], answer))
    /\ link_pos' = link_pos + 1
    /\ pc' = "validate"
    /\ UNCHANGED <<raw_items, now_utc, today, run, previous, pos, seen, final_items, item, signal, fate>>
    /\ UNCHANGED <<payload, result, args, event_data, saved_payload, exit_code, raised, source_counts, seen_urls>>

\* validate_item_links returns
ReturnResults ==
    /\ pc = "validate"
    /\ link_pos > Len(final_items)
    /\ pc' = "write"
    /\ UNCHANGED <<raw_items, now_utc, today, run, previous, pos, seen, final_items, item, signal, fate, outer>>

\* main from line 1007 on: the report is written, and
\* `if args.fail_on_broken_links and broken_links: raise SystemExit(1)`
Finish ==
    /\ pc = "write"
    /\ exit_code' = IF args.fail_on_broken_links /\ Len(SelectSeq(link_results, IsBroken)) > 0 THEN 1 ELSE 0
    /\ pc' = "exited"
    /\ UNCHANGED <<raw_items, now_utc, today, run, previous, pos, seen, final_items, item, signal, fate>>
    /\ UNCHANGED <<payload, result, args, event_data, saved_payload, raised, source_counts, links>>

NextMain ==
    Main \/ Iterate \/ SortAndReturn \/ Summarize \/ SkipEntry \/ HeadRequest \/ GetRequest \/ ReturnResults \/ Finish

SpecMain == InitMain /\ [][NextMain]_vars

\* the items validate_item_links is given
LinkItems == {Computed(raw, NowBase, NowBase).scored[1] : raw \in LinkRawPool}

\* validate_item_links is called on at most MaxLinks items
InitLinks ==
    /\ raw_items = <<>>
    /\ now_utc = NowBase
    /\ today = NowBase
    /\ run = 1
    /\ previous = <<>>
    /\ pc = "validate"
    /\ pos = 1
    /\ seen = {}
    /\ final_items \in SeqsUpTo(LinkItems, MaxLinks)
    /\ item = "none"
    /\ signal = "none"
    /\ fate = <<>>
    /\ payload = JNull
    /\ args = [NoArguments EXCEPT !.validate_links = TRUE]
    /\ event_data = JNull
    /\ NotRun

NextLinks == SkipEntry \/ HeadRequest \/ GetRequest \/ ReturnResults

SpecLinks == InitLinks /\ [][NextLinks]_vars

\* build_report_items and summarize_sources are called on at most MaxItems records
InitSources == Start(SeqsUpTo(SourcePool, MaxItems), {NowBase}, {NowBase})

NextSources == Iterate \/ SortAndReturn \/ Summarize

SpecSources == InitSources /\ [][NextSources]_vars

Spec == Init /\ [][Next]_vars

SpecText == InitText /\ [][Next]_vars

SpecUrl == InitUrl /\ [][Next]_vars

SpecFields == InitFields /\ [][Next]_vars

SpecFallback == InitFallback /\ [][Next]_vars

SpecKeys == InitKeys /\ [][Next]_vars

-----------------------------------------------------------------------------
(* Properties.  Record k is raw_items[k]; what the loop has decided about it is
   fate[k], and it is in the output when an entry of final_items has raw_index k. *)

Processed == 1..Len(fate)

UrlOf(k) == Locals(raw_items[k], now_utc, today).item.url

TimestampOf(k) == Locals(raw_items[k], now_utc, today).timestamp

Published(k) == \E n \in 1..Len(final_items) : final_items[n].raw_index = k

\* the timestamp of record k parses and is not before now_utc - 30 days
PassesTimestamp(k) == TimestampOf(k) # None /\ TimestampOf(k) >= now_utc - 30 * Day

SameUrlIgnoringCase(i, j) == Lower(UrlOf(i)) = Lower(UrlOf(j))

\* C1, as stated: of two records whose selected URLs are equal ignoring letter
\* case, the second is never in the output.
SecondOfEqualUrlsAbsent ==
    \A i, j \in Processed : (i < j /\ SameUrlIgnoringCase(i, j)) => ~Published(j)

\* C1, amended: of two records whose selected URLs are non-empty and equal
\* ignoring letter case, the second is never in the output when the first has a
\* timestamp that parses and is not older than 30 days; and the first record with
\* such a URL and such a timestamp is in the output unless the irrelevance filter
\* dropped it.
SecondOfEqualUrlsAbsentAfterTimestampFilter ==
    \A i, j \in Processed :
        (i < j /\ UrlOf(i) # "" /\ SameUrlIgnoringCase(i, j) /\ PassesTimestamp(i))
            => /\ ~Published(j)
               /\ (\A h \in 1..(i - 1) : ~(SameUrlIgnoringCase(h, i) /\ PassesTimestamp(h)))
                      => (Published(i) \/ fate[i] = "irrelevant")

\* two URLs that differ in letter case only: the first is published, the second
\* is dropped as a duplicate
DuplicateByCaseDropped ==
    /\ pc = "done"
    /\ \E i, j \in Processed :
          /\ i < j
          /\ UrlOf(i) # UrlOf(j)
          /\ UrlOf(i) # ""
          /\ SameUrlIgnoringCase(i, j)
          /\ Published(i)
          /\ PassesTimestamp(j)
          /\ fate[j] = "duplicate"

\* C2: every item of the output has a score in 1..10.
ScoreInRange == \A n \in 1..Len(final_items) : final_items[n].score \in 1..10

\* the output holds an item of score 10 and one of score 3
ExtremeScoresPublished ==
    /\ pc = "done"
    /\ \E m, n \in 1..Len(final_items) : final_items[m].score = 10 /\ final_items[n].score = 3

\* C3: the returned list is sorted descending by (score, timestamp): of two
\* adjacent items the first has the greater score, or the same score and a
\* timestamp that is not earlier.
SortedDescending ==
    pc = "done" =>
        \A n \in 1..(Len(final_items) - 1) :
            \/ final_items[n].score > final_items[n + 1].score
            \/ /\ final_items[n].score = final_items[n + 1].score
               /\ final_items[n].timestamp >= final_items[n + 1].timestamp

\* three items returned in the reverse of their input order: the last two by
\* score, the first two, of equal score, by timestamp
ReorderedByScoreThenTimestamp ==
    /\ pc = "done"
    /\ Len(final_items) = 3
    /\ final_items[1].raw_index = 3
    /\ final_items[2].raw_index = 2
    /\ final_items[3].raw_index = 1
    /\ final_items[1].score = final_items[2].score
    /\ final_items[1].timestamp > final_items[2].timestamp
    /\ final_items[2].score > final_items[3].score

\* the raw timestamp of record k is missing or does not parse
Undated(k) ==
    \/ FirstTimestamp(raw_items[k]).text = ""
    \/ FirstTimestamp(raw_items[k]).kind = "unparsable"

\* C4: no item of the output has a timestamp that is missing, unparsable or
\* before now_utc - 30 days; a record timestamped exactly now_utc - 30 days
\* passes the cutoff, one timestamped a second earlier does not, and one
\* timestamped now_utc - 29 days does.
CutoffAtThirtyDays ==
    /\ \A n \in 1..Len(final_items) :
          /\ final_items[n].timestamp # None
          /\ final_items[n].timestamp >= now_utc - 30 * Day
    /\ \A k \in Processed :
          /\ Undated(k) => (fate[k] = "no_timestamp" /\ ~Published(k))
          /\ ~Undated(k) =>
                /\ TimestampOf(k) < now_utc - 30 * Day => (fate[k] = "too_old" /\ ~Published(k))
                /\ TimestampOf(k) = now_utc - 30 * Day => fate[k] \notin {"no_timestamp", "too_old"}
                /\ TimestampOf(k) = now_utc - 30 * Day - 1 => fate[k] = "too_old"
                /\ TimestampOf(k) = now_utc - 29 * Day => fate[k] \notin {"no_timestamp", "too_old"}

\* an item exactly 30 days old and one 29 days old are published, and an undated
\* record is dropped
BoundaryItemsPublished ==
    /\ pc = "done"
    /\ \E i, j, k \in Processed :
          /\ TimestampOf(i) = now_utc - 30 * Day
          /\ Published(i)
          /\ TimestampOf(j) = now_utc - 29 * Day
          /\ Published(j)
          /\ Undated(k)
          /\ fate[k] = "no_timestamp"

\* C5: a second call with the same raw_items and the same now_utc returns the
\* same sequence as the first, and returned items equal in score and timestamp
\* are in the order of their raw records.
SameOutputOnRerun ==
    /\ (run = 2 /\ pc = "done") => final_items = previous
    /\ pc = "done" =>
          \A m, n \in 1..Len(final_items) :
              (/\ m < n
               /\ final_items[m].score = final_items[n].score
               /\ final_items[m].timestamp = final_items[n].timestamp)
                  => final_items[m].raw_index < final_items[n].raw_index

\* the text classify_signal is given for the record of the last iteration,
\* lower-cased
ClassifiedText == Lower(combined_text(item))

\* the number of terms of a list that are in a text
TermsPresent(terms, text) == Cardinality({t \in 1..Len(terms) : Contains(text, terms[t])})

\* per rule of the table, in table order
StrongCounts(text) == [k \in 1..Len(rules) |-> TermsPresent(rules[k].strong_terms, text)]

MediumCounts(text) == [k \in 1..Len(rules) |-> TermsPresent(rules[k].medium_terms, text)]

RawScores(strong, medium) == [k \in 1..Len(rules) |-> 2 * strong[k] + medium[k]]

RawScoresOf(text) == RawScores(StrongCounts(text), MediumCounts(text))

\* the last iteration reached score_item, and signal is what classify_signal returned
Classified == Len(fate) > 0 /\ fate[Len(fate)] \in {"irrelevant", "published"}

LaterNotChosenOnEqualPositive(counts) ==
    \A i, j \in 1..Len(rules) :
        (i < j /\ counts[i] >= 1 /\ counts[i] = counts[j]) => signal.category # rules[j].category

\* C6, as stated: when the text matches the same number (one or more) of strong
\* terms for two categories, the later of the two in the rule table is not chosen.
EarlierWinsOnEqualStrongCounts ==
    Classified => LaterNotChosenOnEqualPositive(StrongCounts(ClassifiedText))

\* C6, amended: when two categories have the same raw_score, 2 * strong + medium,
\* and it is above 0, the later of the two in the rule table is not chosen; equal
\* strong-term counts alone do not decide, the medium terms count as well.
EarlierWinsOnEqualRawScores ==
    Classified => LaterNotChosenOnEqualPositive(RawScoresOf(ClassifiedText))

TieAtTheTopWonByEarlier(scores) ==
    \E i, j \in 1..Len(rules) :
        /\ i < j
        /\ scores[i] >= 1
        /\ scores[i] = scores[j]
        /\ \A k \in 1..Len(rules) : scores[k] <= scores[i]
        /\ signal.category = rules[i].category

\* two categories tie on raw_score, no category has more, and the earlier is chosen
TieWonByEarlierCategory == Classified /\ TieAtTheTopWonByEarlier(RawScoresOf(ClassifiedText))

MaxRawScore(scores) == Greatest({scores[k] : k \in 1..Len(rules)})

\* the first rule in table order whose raw_score is the maximum
Winner(scores) == Least({k \in 1..Len(rules) : scores[k] = MaxRawScore(scores)})

StrengthFromCounts(strong, medium) ==
    CASE strong >= 2 -> 3
      [] strong = 1 -> 2
      [] strong = 0 /\ medium >= 2 -> 2
      [] OTHER -> 1

ReturnsRule(w, strong, medium) ==
    /\ signal.category = rules[w].category
    /\ signal.signal = rules[w].signal
    /\ signal.strength = StrengthFromCounts(strong[w], medium[w])

ReturnsFirstOfMax(strong, medium) ==
    IF MaxRawScore(RawScores(strong, medium)) = 0
    THEN signal = [category |-> "Development Program",
                   signal |-> "Development program or implementation activity",
                   strength |-> 1]
    ELSE ReturnsRule(Winner(RawScores(strong, medium)), strong, medium)

\* C7: classify_signal returns the first rule in table order whose raw_score is
\* the maximum over the five rules, with the strength of that rule's own counts
\* (3 if strong >= 2, else 2 if strong >= 1 or medium >= 2, else 1); when every
\* raw_score is 0 it returns Development Program, strength 1 and the Development
\* Program signal string.
FirstRuleOfMaxRawScore ==
    Classified => ReturnsFirstOfMax(StrongCounts(ClassifiedText), MediumCounts(ClassifiedText))

WinsOnMediumTermsAlone(w, strong, medium) ==
    /\ strong[w] = 0
    /\ medium[w] = 2
    /\ signal.strength = 2
    /\ signal.category = rules[w].category

WinnerHasMediumTermsOnly(strong, medium) ==
    WinsOnMediumTermsAlone(Winner(RawScores(strong, medium)), strong, medium)

\* the winning rule has no strong term and two medium terms in the text, and the
\* strength is 2
StrengthFromMediumTerms ==
    Classified /\ WinnerHasMediumTermsOnly(StrongCounts(ClassifiedText), MediumCounts(ClassifiedText))

\* title, summary and raw_content of the record of the last iteration, lower-cased:
\* the text of the irrelevance filter, which leaves the categories out
FilteredText == Lower(item.title \o " " \o item.summary \o " " \o item.raw_content)

BlockList ==
    {"opinion", "thought leadership", "podcast", "webinar recap", "newsletter",
     "career", "hiring", "product release", "generic update"}

HasBlockedToken(text) == \E token \in BlockList : Contains(text, token)

UnsignalledBlog(text) ==
    /\ signal.category = "Development Program"
    /\ signal.strength = 1
    /\ Contains(text, "blog")
    /\ ~Contains(text, "call")
    /\ ~Contains(text, "fund")

\* the record of the last iteration
Last == Len(fate)

DroppedIff(dropped) ==
    IF dropped
    THEN fate[Last] = "irrelevant" /\ ~Published(Last)
    ELSE fate[Last] = "published" /\ Published(Last)

Blocked(text) == HasBlockedToken(text) \/ UnsignalledBlog(text)

DroppedAsBlogOnly(text) == ~HasBlockedToken(text) /\ UnsignalledBlog(text)

PriorityOf ==
    [score \in 1..10 |->
        IF score \in 8..10 THEN "HIGH PRIORITY"
        ELSE IF score \in 5..7 THEN "MEDIUM PRIORITY"
        ELSE "LOW PRIORITY"]

OpportunityTypeOf ==
    [category \in {rules[k].category : k \in 1..Len(rules)} |->
        CASE category = "Funding" -> "Grant/Funding"
          [] category = "Procurement" -> "Tender/Procurement"
          [] category = "Humanitarian Update" -> "Humanitarian"
          [] category = "Policy Update" -> "Policy"
          [] category = "Development Program" -> "Program"]

\* C9: the priority of a scored item is a function of its score alone, HIGH from
\* 8, MEDIUM from 5 to 7, LOW up to 4, and its opportunity type is the image of
\* its category under a fixed one-to-one mapping.
PriorityAndOpportunityTypeDerived ==
    /\ \A c, d \in DOMAIN OpportunityTypeOf :
          OpportunityTypeOf[c] = OpportunityTypeOf[d] => c = d
    /\ \A n \in 1..Len(final_items) :
          /\ final_items[n].priority = PriorityOf[final_items[n].score]
          /\ final_items[n].opportunity_type = OpportunityTypeOf[final_items[n].category]

\* items of score 8, 5 and 4 are in the output
BoundaryScoresPublished ==
    /\ pc = "done"
    /\ \E l, m, n \in 1..Len(final_items) :
          /\ final_items[l].score = 8 /\ final_items[l].priority = "HIGH PRIORITY"
          /\ final_items[m].score = 5 /\ final_items[m].priority = "MEDIUM PRIORITY"
          /\ final_items[n].score = 4 /\ final_items[n].priority = "LOW PRIORITY"

\* C10: the url select_best_url produces, which the scored item carries
\* unchanged, is empty or an http/https URL whose host is non-empty and is not
\* a placeholder host.
SelectedUrlEmptyOrRealHttpHost ==
    /\ Len(fate) > 0 =>
          \/ item.url = ""
          \/ /\ url_scheme(item.url) \in {"http", "https"}
             /\ url_hostname(item.url) # ""
             /\ url_hostname(item.url) \notin PLACEHOLDER_URL_HOSTS
    /\ \A n \in 1..Len(final_items) :
          final_items[n].url = select_best_url(raw_items[final_items[n].raw_index])

\* the record the loop has just coerced (the one `item` was made from)
CurrentRaw == raw_items[Len(fate)]

\* the positions of `candidates` holding a valid http(s) URL whose host is not a
\* placeholder
GoodPositions(candidates) ==
    {k \in 1..Len(candidates) : is_http_url(candidates[k]) /\ ~is_placeholder_url(candidates[k])}

SourceNameOf(raw) == normalize_text(Or(Get(raw, "feed_source"), Get(raw, "source")))

MatchesFallbackTable(name) ==
    \/ Contains(name, "un news") /\ Contains(name, "humanitarian")
    \/ Contains(name, "un news") /\ (Contains(name, "economic") \/ Contains(name, "development"))
    \/ \E k \in 1..Len(SOURCE_FALLBACK_URLS) : Contains(name, SOURCE_FALLBACK_URLS[k][1])

FallbackUrls == {SOURCE_FALLBACK_URLS[k][2] : k \in 1..Len(SOURCE_FALLBACK_URLS)}

FirstGoodOrFallback(url, candidates, good, name) ==
    IF good # {} THEN url = candidates[Least(good)]
    ELSE IF MatchesFallbackTable(Lower(name)) THEN url = source_fallback_url(name) /\ url \in FallbackUrls
    ELSE url = ""

\* C11: the selected url is the first candidate, in candidate order, that is a
\* valid non-placeholder http(s) URL when there is one; when there is none it is
\* the fallback URL of the source name if the name matches the fallback table
\* and the empty string otherwise.
FirstValidCandidateElseSourceFallback ==
    Len(fate) > 0 =>
        FirstGoodOrFallback(item.url, candidate_values(CurrentRaw),
                            GoodPositions(candidate_values(CurrentRaw)), SourceNameOf(CurrentRaw))

\* a record with several candidates, all placeholders or invalid, got the
\* fallback URL of its source
FallbackOnlyWithoutGoodCandidate ==
    /\ Len(fate) > 0
    /\ Len(candidate_values(CurrentRaw)) > 1
    /\ GoodPositions(candidate_values(CurrentRaw)) = {}
    /\ SourceNameOf(CurrentRaw) = "ReliefWeb"
    /\ item.url = FallbackFor("reliefweb")

\* C12: the title and the feed_source of every coerced item are non-empty; a
\* record without a title gets "Untitled item" and one without feed_source and
\* source gets "Unknown Source".
TitleAndSourceNonEmpty ==
    Len(fate) > 0 =>
        /\ item.title # ""
        /\ item.feed_source # ""
        /\ Get(CurrentRaw, "title") = "" => item.title = "Untitled item"
        /\ Get(CurrentRaw, "feed_source") = "" /\ Get(CurrentRaw, "source") = ""
              => item.feed_source = "Unknown Source"

\* the list keys before position k hold no list
NoListBefore(mapping, k) == \A j \in 1..(k - 1) : ~IsList(JGet(mapping, list_keys[j]))

\* the wrapper keys before position k give no item
NoItemsBefore(mapping, k) == \A j \in 1..(k - 1) : extract_items(JGet(mapping, wrapper_keys[j])) = <<>>

\* what the rules for a mapping give
MappingRules(mapping, items) ==
    IF \E k \in 1..Len(list_keys) : IsList(JGet(mapping, list_keys[k]))
    THEN \E k \in 1..Len(list_keys) :
            /\ IsList(JGet(mapping, list_keys[k]))
            /\ NoListBefore(mapping, k)
            /\ items = SelectSeq(JGet(mapping, list_keys[k]).list, IsDict)
    ELSE IF \E k \in 1..Len(wrapper_keys) : extract_items(JGet(mapping, wrapper_keys[k])) # <<>>
    THEN \E k \in 1..Len(wrapper_keys) :
            /\ items = extract_items(JGet(mapping, wrapper_keys[k]))
            /\ items # <<>>
            /\ NoItemsBefore(mapping, k)
    ELSE IF {"title", "url"} \subseteq DOMAIN mapping THEN items = <<JDict(mapping)>>
    ELSE items = <<>>

ExtractRules(value, items) ==
    /\ \A k \in 1..Len(items) : IsDict(items[k])
    /\ IsList(value) => items = SelectSeq(value.list, IsDict)
    /\ IsStr(value) => items = IF value.str = "json" THEN extract_items(value.loads) ELSE <<>>
    /\ IsDict(value) => MappingRules(value.dict, items)
    /\ ~IsList(value) /\ ~IsStr(value) /\ ~IsDict(value) => items = <<>>

\* C13: extract_items returns a list of mappings only, by the first rule that
\* applies: the mapping entries of a list; the items of the value a string is
\* the JSON text of; for a mapping, the mapping entries of the list under the
\* first list key that holds a list (even when it has none), else the items of
\* the first wrapper key that yields any, else the mapping itself when it has
\* the keys title and url, else nothing.
ExtractItemsFirstRuleWins == pc = "returned" => ExtractRules(payload, result)

\* a mapping whose items key holds an empty list and whose payload key wraps
\* items gave nothing, though it has a title and a url
EmptyListKeyDecides ==
    /\ pc = "returned"
    /\ IsDict(payload)
    /\ IsList(JGet(payload.dict, "items"))
    /\ extract_items(JGet(payload.dict, "payload")) # <<>>
    /\ {"title", "url"} \subseteq DOMAIN payload.dict
    /\ result = <<>>

\* C14: no exception leaves main's payload extraction: a payload that cannot
\* be parsed or has an unexpected shape gives no items and the run ends as a
\* no-op.
NoExceptionFromPayloadExtraction == raised = ""

\* C15: the exit code is 1 exactly when --fail-on-broken-links is set and a
\* broken link was found, and 0 in every other case.
ExitOneOnlyForBrokenLinksWithFlag ==
    pc = "exited" =>
        /\ exit_code \in {0, 1}
        /\ exit_code = 1 <=> (args.fail_on_broken_links /\ \E k \in 1..Len(link_results) : ~link_results[k].ok)

\* the requests made for url, in the order they were made
RequestsFor(url) == SelectSeq(requests, LAMBDA request : request.url = url)

NetworkFailure(answer) == answer.kind \in {"url_error", "exception"}

\* the order of the requests made for one URL
HeadThenAtMostOneGet(made) ==
    /\ Len(made) <= 2
    /\ Len(made) >= 1 => made[1].method = "HEAD"
    /\ Len(made) = 2 =>
          /\ made[2].method = "GET"
          /\ made[1].answer.kind = "http_error"
          /\ made[1].answer.code \in {405, 501}
          /\ ~NetworkFailure(made[1].answer)

\* the row is that of the answer to the last request
RowOfLastAnswer(row, made) ==
    /\ Len(made) >= 1
    /\ NetworkFailure(made[Len(made)].answer) =>
          row.status_code = 0 /\ row.detail = made[Len(made)].answer.detail /\ row.detail # ""
    /\ ~NetworkFailure(made[Len(made)].answer) => row.status_code = made[Len(made)].answer.code
    /\ row.ok <=> row.status_code \in 200..399

\* C16: for one URL the first request is a HEAD, and one more request, a GET,
\* follows only a HEAD answered with 405 or 501; a request that fails at the
\* network level is the last one and gives status 0 with the failure text;
\* the URL is ok exactly when the final status is within 200..399.
HeadFirstGetOnlyAfter405Or501 ==
    /\ \A url \in seen_urls : HeadThenAtMostOneGet(RequestsFor(url))
    /\ \A k \in 1..Len(link_results) : RowOfLastAnswer(link_results[k], RequestsFor(link_results[k].url))

\* one URL was retried with GET after 501 and the GET failed at the network
\* level, another was answered 304 to its HEAD and is ok
GetAfter501FailedAndHeadAnswered304 ==
    /\ pc = "write"
    /\ \E k, n \in 1..Len(link_results) :
          /\ Len(RequestsFor(link_results[k].url)) = 2
          /\ RequestsFor(link_results[k].url)[1].answer.code = 501
          /\ RequestsFor(link_results[k].url)[2].answer.kind = "url_error"
          /\ link_results[k].status_code = 0 /\ ~link_results[k].ok
          /\ Len(RequestsFor(link_results[n].url)) = 1
          /\ link_results[n].status_code = 304 /\ link_results[n].ok

\* the positions among the first n items that hold a non-empty URL no earlier
\* item holds
FirstOccurrences(items, n) ==
    SelectSeq([k \in 1..n |-> k],
              LAMBDA k : items[k].url # "" /\ \A j \in 1..(k - 1) : items[j].url # items[k].url)

RowsFollow(rows, firsts, items) ==
    /\ Len(rows) = Len(firsts)
    /\ \A i \in 1..Len(rows) : rows[i].url = items[firsts[i]].url /\ rows[i].title = items[firsts[i]].title

\* C17: after any number of iterations of validate_item_links there is exactly
\* one row, in item order, for each distinct non-empty URL of the items gone
\* through, whatever the earlier checks returned, and each such URL got exactly
\* one HEAD request; an empty URL gets no row and no request.
OneRowPerDistinctUrlInItemOrder ==
    pc \in {"validate", "get", "write"} =>
        /\ RowsFollow(link_results, FirstOccurrences(final_items, link_pos - 1), final_items)
        /\ \A k \in 1..Len(link_results) :
              Len(SelectSeq(RequestsFor(link_results[k].url), LAMBDA request : request.method = "HEAD")) = 1
        /\ \A k \in 1..Len(requests) : requests[k].url # ""
        /\ \A k \in 1..Len(link_results) : link_results[k].url # ""

\* three items, the second with the URL of the first: the first check failed at
\* the network level, and the third item was still checked
DuplicateSkippedAndCheckingGoesOnAfterFailure ==
    /\ pc = "write"
    /\ Len(final_items) = 3
    /\ final_items[1].url = final_items[2].url
    /\ Len(link_results) = 2
    /\ link_results[1].status_code = 0 /\ ~link_results[1].ok
    /\ link_results[2].url = final_items[3].url

HumanitarianFeed == "https://news.un.org/feed/subscribe/en/news/topic/humanitarian-aid/feed/rss.xml"

EconomicDevelopmentFeed == "https://news.un.org/feed/subscribe/en/news/topic/economic-development/feed/rss.xml"

\* url is that of the first key of the table, in table order, that is in name,
\* and "" when no key is
FirstKeyInTableOrder(url, name) ==
    IF \E k \in 1..Len(SOURCE_FALLBACK_URLS) : Contains(name, SOURCE_FALLBACK_URLS[k][1])
    THEN \E k \in 1..Len(SOURCE_FALLBACK_URLS) :
            /\ Contains(name, SOURCE_FALLBACK_URLS[k][1])
            /\ \A j \in 1..(k - 1) : ~Contains(name, SOURCE_FALLBACK_URLS[j][1])
            /\ url = SOURCE_FALLBACK_URLS[k][2]
    ELSE url = ""

FallbackRules(url, name) ==
    IF Contains(name, "un news") /\ Contains(name, "humanitarian") THEN url = HumanitarianFeed
    ELSE IF Contains(name, "un news") /\ (Contains(name, "economic") \/ Contains(name, "development"))
    THEN url = EconomicDevelopmentFeed
    ELSE FirstKeyInTableOrder(url, name)

\* C18: the fallback URL of a source name containing "un news" is the
\* humanitarian feed when the name also contains "humanitarian", whatever else
\* it contains, and otherwise the economic-development feed when it contains
\* "economic" or "development"; for every other name it is the URL of the first
\* table key, in table order, found in the lower-cased name, and "" when there
\* is none or the name is empty.
UnNewsRoutedElseFirstTableKey ==
    Len(fate) > 0 /\ Len(candidate_values(CurrentRaw)) = 0 =>
        FallbackRules(item.url, Lower(SourceNameOf(CurrentRaw)))

\* a name with "un news", "economic" and "humanitarian" got the humanitarian feed
HumanitarianWinsOverEconomic ==
    /\ Len(fate) > 0
    /\ Len(candidate_values(CurrentRaw)) = 0
    /\ Contains(Lower(SourceNameOf(CurrentRaw)), "un news")
    /\ Contains(Lower(SourceNameOf(CurrentRaw)), "economic")
    /\ Contains(Lower(SourceNameOf(CurrentRaw)), "humanitarian")
    /\ item.url = HumanitarianFeed

\* the label a raw record is counted under
LabelOf(raw) ==
    IF Get(raw, "feed_source") # "" THEN normalize_text(Get(raw, "feed_source"))
    ELSE IF Get(raw, "source") # "" THEN normalize_text(Get(raw, "source"))
    ELSE "Unknown Source"

RECURSIVE SumOfCounts(_)
SumOfCounts(rows) == IF Len(rows) = 0 THEN 0 ELSE Head(rows)[2] + SumOfCounts(Tail(rows))

\* lower(a) <= lower(b)
NotAfterIgnoringCase(a, b) == ~StrLess(Lower(b), Lower(a))

CountsAreOf(rows, raws) ==
    /\ \A k \in 1..Len(raws) : \E i \in 1..Len(rows) : rows[i][1] = LabelOf(raws[k])
    /\ \A i \in 1..Len(rows) : rows[i][2] = Cardinality({k \in 1..Len(raws) : LabelOf(raws[k]) = rows[i][1]})
    /\ \A i \in 1..Len(rows) : rows[i][2] > 0
    /\ \A i, j \in 1..Len(rows) : rows[i][1] = rows[j][1] => i = j
    /\ SumOfCounts(rows) = Len(raws)
    /\ \A i, j \in 1..Len(rows) :
          i < j => \/ rows[i][2] > rows[j][2]
                   \/ rows[i][2] = rows[j][2] /\ NotAfterIgnoringCase(rows[i][1], rows[j][1])

\* C19: source_counts has one row for each normalized source label of the raw
\* records, "Unknown Source" for a record without one, with the number of raw
\* records carrying that label, dropped records included; the counts add up to
\* the number of raw records and the rows are in descending order of count,
\* rows of equal count in ascending order of the lower-cased label.
SourceCountsCoverEveryRawRecord ==
    pc \in {"validate", "write"} => CountsAreOf(source_counts, raw_items)

\* three records, one of them dropped by the pipeline, and the rows of "adb" and
\* "Zeta Fund", equal in count, in that order
DroppedRecordCountedAndTieOrderedIgnoringCase ==
    /\ pc \in {"validate", "write"}
    /\ Len(raw_items) = 3
    /\ Len(final_items) < 3
    /\ \E i \in 1..(Len(source_counts) - 1) :
          /\ source_counts[i] = <<"adb", 1>>
          /\ source_counts[i + 1] = <<"Zeta Fund", 1>>

KeyOf(k) == Locals(raw_items[k], now_utc, today).key

\* record k got as far as seen.add(key)
Registered(k) == fate[k] \in {"irrelevant", "published"}

\* record k would be published if it were the only record
RelevantAlone(k) == PassesTimestamp(k) /\ Len(Locals(raw_items[k], now_utc, today).scored) > 0

\* the filter that decided about record k is the first, in the order timestamp
\* parse, 30-day cutoff, dedup, irrelevance, that rejects it
FirstRejectingFilterDecides(k) ==
    /\ fate[k] = "no_timestamp" <=> TimestampOf(k) = None
    /\ fate[k] = "too_old" <=> (TimestampOf(k) # None /\ ~PassesTimestamp(k))
    /\ fate[k] = "duplicate" <=>
          (PassesTimestamp(k) /\ \E i \in 1..(k - 1) : Registered(i) /\ KeyOf(i) = KeyOf(k))
    /\ fate[k] = "published" <=> Published(k)

\* C20: each record is decided by the first filter that rejects it, in the
\* order timestamp parse, 30-day cutoff, dedup, irrelevance.  Only records that
\* pass the dedup test register their key: a record dropped by a timestamp
\* filter registers none and does not make a later record a duplicate, while a
\* record dropped as irrelevant has registered its key, every later record with
\* that key that passes the timestamp filters is dropped as a duplicate, and no
\* record with that key is published.
KeyRegisteredBeforeIrrelevanceFilter ==
    /\ \A k \in Processed : FirstRejectingFilterDecides(k)
    /\ seen = {KeyOf(k) : k \in {h \in Processed : Registered(h)}}
    /\ \A i, j \in Processed :
          fate[i] = "irrelevant" /\ KeyOf(j) = KeyOf(i) => ~Published(j)

\* a record that would be published alone was dropped as a duplicate of an
\* earlier record that was dropped as irrelevant
IrrelevantRecordShadowsLaterOne ==
    \E i, j \in Processed :
        /\ i < j
        /\ KeyOf(i) = KeyOf(j)
        /\ fate[i] = "irrelevant"
        /\ fate[j] = "duplicate"
        /\ RelevantAlone(j)

\* record k has no valid non-placeholder URL of its own
NoUrlOfItsOwn(k) == GoodPositions(candidate_values(raw_items[k])) = {}

FallbackUrlOf(k) == source_fallback_url(SourceNameOf(raw_items[k]))

\* records i and j get their URL from the fallback table, and the same one
SharedFallback(i, j) ==
    /\ NoUrlOfItsOwn(i)
    /\ NoUrlOfItsOwn(j)
    /\ FallbackUrlOf(i) # ""
    /\ FallbackUrlOf(i) = FallbackUrlOf(j)

CoercedOf(k) == Locals(raw_items[k], now_utc, today).item

\* C21: of two records within the 30-day window that have no valid
\* non-placeholder URL of their own and whose source names map to the same
\* fallback URL, both get that URL's identity key, the second is dropped as a
\* duplicate, and the first is the only one that can be in the output (it is,
\* unless it is itself a duplicate of an earlier in-window record or, failing
\* that, irrelevant).
SharedFallbackUrlKeepsOnlyFirst ==
    \A i, j \in Processed :
        i < j /\ PassesTimestamp(i) /\ PassesTimestamp(j) /\ SharedFallback(i, j) =>
            /\ KeyOf(i) = Lower(FallbackUrlOf(i))
            /\ KeyOf(j) = KeyOf(i)
            /\ fate[j] = "duplicate"
            /\ ~Published(j)
            /\ fate[i] = "duplicate" <=>
                   \E h \in 1..(i - 1) : PassesTimestamp(h) /\ KeyOf(h) = KeyOf(i)
            /\ fate[i] = "published" <=> (fate[i] # "duplicate" /\ RelevantAlone(i))
            /\ fate[i] = "irrelevant" <=> (fate[i] # "duplicate" /\ ~RelevantAlone(i))

\* two records from the same fallback URL, different in title, summary and
\* timestamp: the first is in the output, the second, which would be published
\* alone, is not
SecondSourceItemLostToSharedUrl ==
    /\ pc = "done"
    /\ Len(raw_items) = 2
    /\ SharedFallback(1, 2)
    /\ CoercedOf(1).title # CoercedOf(2).title
    /\ CoercedOf(1).summary # CoercedOf(2).summary
    /\ TimestampOf(1) # TimestampOf(2)
    /\ RelevantAlone(2)
    /\ Published(1)
    /\ ~Published(2)

\* the fields dedupe_key joins are equal for records i and j
SameJoinedFields(i, j) ==
    /\ Lower(CoercedOf(i).title) = Lower(CoercedOf(j).title)
    /\ Lower(CoercedOf(i).summary) = Lower(CoercedOf(j).summary)
    /\ Lower(CoercedOf(i).feed_source) = Lower(CoercedOf(j).feed_source)
    /\ CoercedOf(i).timestamp.text = CoercedOf(j).timestamp.text

\* C22: two items with an empty url have the same identity key if and only if
\* their lower-cased title, lower-cased summary, lower-cased feed_source and
\* raw timestamp string are equal field by field.
SameKeyIffSameJoinedFields ==
    \A i, j \in Processed :
        CoercedOf(i).url = "" /\ CoercedOf(j).url = "" =>
            (KeyOf(i) = KeyOf(j) <=> SameJoinedFields(i, j))

=============================================================================
